---- MODULE Spec2Model ----
(***************************************************************************)
(* Model of the schema compiler of nextjs-json-schema-generator: the JSON  *)
(* table/enum descriptors, the validator, the type mappers, the            *)
(* relationship resolver, the three generators and the aggregation.        *)
(*                                                                         *)
(* Text is modelled structurally.  A name (table, column, enum, type tag)  *)
(* is a sequence of one-character strings, so that the string transforms   *)
(* are computed character by character.  An emitted expression is a        *)
(* sequence of tokens, one token per piece the code appends.               *)
(***************************************************************************)
EXTENDS Integers, Sequences, FiniteSets, TLC

VARIABLES
    \* ---- inputs shared by the pure-function specifications
    enums,      \* the EnumsConfig: sequence of [name, keys, values] in key order
    enumSchemas, \* result of generateEnumSchemas(enums)
    enumDefs,   \* result of generateEnumDefinitions(enums)
    \* ---- SpecTable: one table descriptor and what the table-level functions return
    tbl,        \* the TableConfig under test
    vres,       \* result of validateTableConfig (lib/template.ts)
    vresSA,     \* result of validateTableConfig (models/utils/schemaAnalysis.ts)
    tdef,       \* result of generateTableDefinition
    tins,       \* result of generateInsertSchema on the table
    tupd,       \* result of generateUpdateSchema on the table
    \* ---- SpecColumn: one column and what the column-level functions return
    col,        \* [name, cfg, composite]: the column under test
    drz,        \* result of mapColumnToDrizzle
    drzType,    \* result of mapToDrizzleType
    zbase,      \* result of generateBaseSchemaField
    zins,       \* result of generateInsertSchema on the table of that one column
    zmap,       \* result of mapToZodType (models/utils/typeMapping.ts)
    tsType,     \* result of mapToTSType (models/utils/typeMapping.ts)
    \* ---- SpecRel: a table set and the relations computed over it
    allTables,  \* the loaded TableConfig[] (array order)
    cur,        \* index in allTables of the table the functions are applied to
    fkRel,      \* result of generateForeignKeyRelations(allTables[cur])
    revRel,     \* result of generateReverseRelations(allTables[cur], allTables)
    anaRel,     \* result of analyzeRelationships(allTables[cur])
    artVal,     \* result of generateTableValidation(allTables[cur], enums)
    artTypes,   \* result of generateTableTypes(allTables[cur], enums, allTables)
    artSchema,  \* result of generateTableSchema(allTables[cur], enums) of schemas.ts
    \* ---- Spec: the generators run as a process
    dir,        \* ./db/tables: sequence of descriptor files in readdir order
    opts,       \* GenerateOptions of generateModels
    run,        \* 1 for the first run of the pipeline, 2 for the re-run
    pc,         \* position in generateModels / the current generator
    gen,        \* the generator that is running: "validation", "types", "schema"
    loads,      \* loadAllTables: per file "idle", "pending", "ok" or "rejected"
    settled,    \* the files whose loadTable promise has settled, in settling order:
                \* kept while the list that Promise.all resolved with is in use
    tables,     \* what loadAllTables returned to the current generator
    idx,        \* index of the next table of the per-table loop
    fs,         \* the files written so far in this run, in write order
    prevFs,     \* the files written by the first run
    clock,      \* the wall clock read by new Date()
    exitCode    \* "running", "0" (returned normally) or "1" (process.exit(1))

specVars  == <<dir, opts, run, pc, gen, loads, settled, tables, idx, fs, prevFs, clock, exitCode>>
tableVars == <<tbl, vres, vresSA, tdef, tins, tupd>>
colVars   == <<col, drz, drzType, zbase, zins, zmap, tsType>>
relVars   == <<allTables, cur, fkRel, revRel, anaRel, artVal, artTypes, artSchema>>
enumVars  == <<enumSchemas, enumDefs>>
vars      == <<enums, enumVars, specVars, tableVars, colVars, relVars>>

-----------------------------------------------------------------------------
(* Bounds of the model                                                     *)

MaxCols == 3      \* columns per table in SpecTable
MaxTables == 2    \* tables in SpecRel
MaxFiles == 2     \* descriptor files in ./db/tables in Spec
MaxRuns == 2      \* runs of the pipeline on the same input in Spec

-----------------------------------------------------------------------------
(* Characters and the JavaScript string primitives used by the code        *)

Lower == <<"a","b","c","d","e","f","g","h","i","j","k","l","m",
           "n","o","p","q","r","s","t","u","v","w","x","y","z">>
Upper == <<"A","B","C","D","E","F","G","H","I","J","K","L","M",
           "N","O","P","Q","R","S","T","U","V","W","X","Y","Z">>
Digits == <<"0","1","2","3","4","5","6","7","8","9">>

IsLower(c) == \E i \in DOMAIN Lower : Lower[i] = c
IsDigit(c) == \E i \in DOMAIN Digits : Digits[i] = c

\* String.prototype.toUpperCase / toLowerCase on one character
toUpperCase(c) ==
    IF IsLower(c) THEN Upper[CHOOSE i \in DOMAIN Lower : Lower[i] = c] ELSE c
toLowerCase(c) ==
    IF \E i \in DOMAIN Upper : Upper[i] = c
    THEN Lower[CHOOSE i \in DOMAIN Upper : Upper[i] = c] ELSE c

\* String.prototype.endsWith
endsWith(s, suf) ==
    /\ Len(suf) <= Len(s)
    /\ SubSeq(s, Len(s) - Len(suf) + 1, Len(s)) = suf

\* str.slice(0, -n)
sliceEnd(s, n) == SubSeq(s, 1, Len(s) - n)

\* Template-literal rendering of a non-negative integer: `${n}`
RECURSIVE numToString(_)
numToString(n) ==
    IF n < 10 THEN <<Digits[n + 1]>>
    ELSE numToString(n \div 10) \o <<Digits[(n % 10) + 1]>>

\* Array.prototype.indexOf(x) === index, the "unique" filter of the code
RECURSIVE uniqueFilter(_)
uniqueFilter(s) ==
    IF s = <<>> THEN <<>>
    ELSE LET init == uniqueFilter(SubSeq(s, 1, Len(s) - 1))
             last == s[Len(s)]
         IN  IF \E i \in 1..(Len(s) - 1) : s[i] = last THEN init
             ELSE Append(init, last)

-----------------------------------------------------------------------------
(* lib/stringTransforms.ts                                                 *)

\* str.replace(/_([a-z0-9])/g, (_, letter) => letter.toUpperCase())
RECURSIVE toCamelCase(_)
toCamelCase(str) ==
    IF str = <<>> THEN <<>>
    ELSE IF /\ Len(str) >= 2
            /\ str[1] = "_"
            /\ (IsLower(str[2]) \/ IsDigit(str[2]))
         THEN <<toUpperCase(str[2])>> \o toCamelCase(SubSeq(str, 3, Len(str)))
         ELSE <<str[1]>> \o toCamelCase(Tail(str))

\* the "_x" matches of /(^|_)([a-z])/g after the first character
RECURSIVE pascalRest(_)
pascalRest(str) ==
    IF str = <<>> THEN <<>>
    ELSE IF Len(str) >= 2 /\ str[1] = "_" /\ IsLower(str[2])
         THEN <<toUpperCase(str[2])>> \o pascalRest(SubSeq(str, 3, Len(str)))
         ELSE <<str[1]>> \o pascalRest(Tail(str))

\* str.replace(/(^|_)([a-z])/g, (_, __, letter) => letter.toUpperCase())
toPascalCase(str) ==
    IF str # <<>> /\ IsLower(str[1])
    THEN <<toUpperCase(str[1])>> \o pascalRest(Tail(str))
    ELSE pascalRest(str)

Irregulars ==
    << <<<<"p","e","o","p","l","e">>, <<"p","e","r","s","o","n">> >>,
       <<<<"c","h","i","l","d","r","e","n">>, <<"c","h","i","l","d">> >>,
       <<<<"f","e","e","t">>, <<"f","o","o","t">> >>,
       <<<<"t","e","e","t","h">>, <<"t","o","o","t","h">> >>,
       <<<<"g","e","e","s","e">>, <<"g","o","o","s","e">> >>,
       <<<<"m","i","c","e">>, <<"m","o","u","s","e">> >>,
       <<<<"m","e","n">>, <<"m","a","n">> >>,
       <<<<"w","o","m","e","n">>, <<"w","o","m","a","n">> >> >>

toSingular(str) ==
    LET lower == [i \in DOMAIN str |-> toLowerCase(str[i])]
    IN  IF \E i \in DOMAIN Irregulars : Irregulars[i][1] = lower
        THEN Irregulars[CHOOSE i \in DOMAIN Irregulars : Irregulars[i][1] = lower][2]
        ELSE IF endsWith(str, <<"i","e","s">>) THEN sliceEnd(str, 3) \o <<"y">>
        ELSE IF endsWith(str, <<"v","e","s">>) THEN sliceEnd(str, 3) \o <<"f">>
        ELSE IF /\ endsWith(str, <<"e","s">>)
                /\ \/ endsWith(str, <<"c","h","e","s">>)
                   \/ endsWith(str, <<"s","h","e","s">>)
                   \/ endsWith(str, <<"x","e","s">>)
                   \/ endsWith(str, <<"z","e","s">>)
             THEN sliceEnd(str, 2)
        ELSE IF endsWith(str, <<"s">>) /\ ~endsWith(str, <<"s","s">>)
             THEN sliceEnd(str, 1)
        ELSE str

toSingularPascalCase(tableName) == toPascalCase(toSingular(tableName))
toSingularCamelCase(tableName) == toCamelCase(toSingular(tableName))

-----------------------------------------------------------------------------
(* Names used by the descriptors of the model                              *)

T_varchar   == <<"v","a","r","c","h","a","r">>
T_text      == <<"t","e","x","t">>
T_integer   == <<"i","n","t","e","g","e","r">>
T_serial    == <<"s","e","r","i","a","l">>
T_numeric   == <<"n","u","m","e","r","i","c">>
T_decimal   == <<"d","e","c","i","m","a","l">>
T_money     == <<"m","o","n","e","y">>
T_timestamp == <<"t","i","m","e","s","t","a","m","p">>
T_date      == <<"d","a","t","e">>
T_boolean   == <<"b","o","o","l","e","a","n">>
T_geography == <<"g","e","o","g","r","a","p","h","y">>
T_enum      == <<"e","n","u","m">>
\* tags that are not built in: two that name an enum, one that names none
T_user_status == <<"u","s","e","r","_","s","t","a","t","u","s">>
T_role        == <<"r","o","l","e">>
T_point       == <<"p","o","i","n","t">>

S_enum_suffix == <<"_","e","n","u","m">>
S_now         == <<"n","o","w","(",")">>
S_pending     == <<"p","e","n","d","i","n","g">>
S_true        == <<"t","r","u","e">>
S_false       == <<"f","a","l","s","e">>
S_null        == <<"n","u","l","l">>
S_id          == <<"i","d">>

N_users    == <<"u","s","e","r","s">>
N_staff    == <<"s","t","a","f","f">>
N_guests   == <<"g","u","e","s","t","s">>
N_bookings == <<"b","o","o","k","i","n","g","s">>
N_user_id   == <<"u","s","e","r","_","i","d">>
N_status    == <<"s","t","a","t","u","s">>

BuiltinTags == {T_varchar, T_text, T_integer, T_serial, T_numeric, T_decimal,
                T_money, T_timestamp, T_date, T_boolean, T_geography}

-----------------------------------------------------------------------------
(* lib/config.ts: the descriptor shapes.  An optional field that is absent *)
(* (undefined) is NoNum for a number, "absent" for validation.required,    *)
(* kind "undefined" for a default and present = FALSE for references.      *)
(* nullable, primaryKey and unique are only ever tested for truthiness, so *)
(* absent and false are the one value FALSE.                               *)

NoNum == 0 - 1
Truthy(n) == n # NoNum /\ n # 0

\* dbConstraints.default: number | string | boolean | null | undefined
DefUndefined == [kind |-> "undefined", s |-> <<>>, n |-> 0, frac |-> <<>>, b |-> FALSE]
DefNull      == [kind |-> "null",      s |-> <<>>, n |-> 0, frac |-> <<>>, b |-> FALSE]
DefString(s) == [kind |-> "string",    s |-> s,    n |-> 0, frac |-> <<>>, b |-> FALSE]
DefNumber(n) == [kind |-> "number",    s |-> <<>>, n |-> n, frac |-> <<>>, b |-> FALSE]
DefBoolean(b) == [kind |-> "boolean",  s |-> <<>>, n |-> 0, frac |-> <<>>, b |-> b]
\* a number with a fractional part: n the integer part, frac the digits
\* after the point (no trailing zero, as a JavaScript number prints)
DefFraction(n, frac) ==
    [kind |-> "number", s |-> <<>>, n |-> n, frac |-> frac, b |-> FALSE]

\* `${defaultValue}`
defaultToString(d) ==
    CASE d.kind = "string"    -> d.s
      [] d.kind = "number"    ->
            numToString(d.n) \o (IF d.frac = <<>> THEN <<>> ELSE <<".">> \o d.frac)
      [] d.kind = "boolean"   -> IF d.b THEN S_true ELSE S_false
      [] d.kind = "null"      -> S_null
      [] OTHER                -> <<"u","n","d","e","f","i","n","e","d">>

NoRef == [present |-> FALSE, table |-> <<>>, column |-> <<>>, onDelete |-> ""]
Ref(t, c, od) == [present |-> TRUE, table |-> t, column |-> c, onDelete |-> od]

\* ColumnValidation; `columnConfig.validation || {}` makes an absent
\* validation the record with every field absent
NoValidation ==
    [required |-> "absent", min |-> NoNum, max |-> NoNum, pattern |-> <<>>,
     email |-> FALSE, url |-> FALSE]

\* ColumnConfig
Column(type, nullable, default, primaryKey, unique, references, validation) ==
    [dbConstraints |->
        [type |-> type, length |-> NoNum, precision |-> NoNum, scale |-> NoNum,
         nullable |-> nullable, default |-> default, primaryKey |-> primaryKey,
         unique |-> unique, references |-> references],
     validation |-> validation]

\* EnumsConfig: Object.keys(enums) order is the sequence order; keys are the
\* keys of one EnumConfig object in insertion order
EnumConfigOf(name, keys, values) == [name |-> name, keys |-> keys, values |-> values]

V_status == <<"active", "inactive", "pending">>
V_roles  == <<"admin", "user">>

EnumOf(name) == EnumConfigOf(name, <<"values", "labels", "description">>, V_status)

\* Object.keys(enums).find((key) => key === type || key === `${type}_enum`)
findEnumKey(type, es) ==
    LET hit(i) == es[i].name = type \/ es[i].name = type \o S_enum_suffix
    IN  IF \E i \in DOMAIN es : hit(i)
        THEN [found |-> TRUE,
              key |-> es[CHOOSE i \in DOMAIN es :
                            hit(i) /\ \A j \in 1..(i - 1) : ~hit(j)].name]
        ELSE [found |-> FALSE, key |-> <<>>]

\* An emitted modifier or call: m the method, q a quote or option, a its text
Tok(m, q, a) == [m |-> m, q |-> q, a |-> a]
HasTok(ts, m) == \E i \in DOMAIN ts : ts[i].m = m
CountTok(ts, m) == Cardinality({i \in DOMAIN ts : ts[i].m = m})

-----------------------------------------------------------------------------
(* lib/template.ts and models/utils/schemaAnalysis.ts: the validator       *)

E_tableName == "Table must have a tableName"
E_columns   == "Table must have at least one column"
E_primary   == "Table must have a primary key"

\* hasPrimaryKey with the `type === "serial"` alternative forgotten
hasPrimaryKeyNoSerial(columns) ==
    \E i \in DOMAIN columns : columns[i].cfg.dbConstraints.primaryKey

\* Object.values(table.columns).some(col => primaryKey || type === "serial")
hasPrimaryKey(columns) ==
    \E i \in DOMAIN columns :
        \/ columns[i].cfg.dbConstraints.primaryKey
        \/ columns[i].cfg.dbConstraints.type = T_serial

\* validateTableConfig of lib/template.ts.  The result is what the call
\* does: it returns the list, or Object.values(undefined) throws a TypeError
validateTableConfig(table) ==
    LET e1 == IF table.tableName = <<>> THEN <<E_tableName>> ELSE <<>>
        e2 == IF ~table.hasColumns \/ Len(table.columns) = 0
              THEN <<E_columns>> ELSE <<>>
    IN  IF ~table.hasColumns
        THEN [threw |-> TRUE, errors |-> <<>>]
        ELSE [threw |-> FALSE,
              errors |-> e1 \o e2 \o
                  (IF ~hasPrimaryKey(table.columns) THEN <<E_primary>> ELSE <<>>)]

\* validateTableConfig of models/utils/schemaAnalysis.ts (the same text)
validateTableConfigSA(table) ==
    LET e1 == IF table.tableName = <<>> THEN <<E_tableName>> ELSE <<>>
        e2 == IF ~table.hasColumns \/ Len(table.columns) = 0
              THEN <<E_columns>> ELSE <<>>
    IN  IF ~table.hasColumns
        THEN [threw |-> TRUE, errors |-> <<>>]
        ELSE [threw |-> FALSE,
              errors |-> e1 \o e2 \o
                  (IF ~hasPrimaryKey(table.columns) THEN <<E_primary>> ELSE <<>>)]

-----------------------------------------------------------------------------
(* TableConfig: columns is the column map in key order, hasColumns is      *)
(* whether the descriptor has a columns field at all; file is the          *)
(* descriptor file the object was parsed from (its identity).              *)

Table(file, tableName, hasColumns, columns) ==
    [file |-> file, tableName |-> tableName, hasColumns |-> hasColumns,
     columns |-> columns, indexes |-> <<>>, relationships |-> <<>>]

-----------------------------------------------------------------------------
(* models/generators/schemas.ts: the storage emitter                       *)

\* drizzleDefault with the `type !== "serial"` test forgotten
drizzleDefaultOnSerial(type, d) ==
    IF d.kind # "undefined"
    THEN IF d.kind = "string" /\ d.s = S_now
            THEN <<Tok("defaultNow", "", <<>>)>>
         ELSE IF d.kind = "string"
            THEN <<Tok("default", "'", d.s)>>
         ELSE <<Tok("default", "", defaultToString(d))>>
    ELSE <<>>

\* the .default(...) / .defaultNow() constraint of mapColumnToDrizzle
drizzleDefault(type, d) ==
    IF d.kind # "undefined" /\ type # T_serial
    THEN IF d.kind = "string" /\ d.s = S_now
            THEN <<Tok("defaultNow", "", <<>>)>>
         ELSE IF d.kind = "string"
            THEN <<Tok("default", "'", d.s)>>
         ELSE IF d.kind = "boolean"
            THEN <<Tok("default", "", defaultToString(d))>>
         ELSE IF type = T_numeric \/ type = T_decimal \/ type = T_money
            THEN <<Tok("default", "'", defaultToString(d))>>
         ELSE <<Tok("default", "", defaultToString(d))>>
    ELSE <<>>

\* the switch of mapColumnToDrizzle: constructor and its options
drizzleCtor(type, c, es) ==
    CASE type = T_varchar ->
            [ctor |-> T_varchar,
             args |-> IF Truthy(c.length)
                      THEN <<Tok("length", "", numToString(c.length))>> ELSE <<>>]
      [] type = T_text      -> [ctor |-> T_text, args |-> <<>>]
      [] type = T_integer   -> [ctor |-> T_integer, args |-> <<>>]
      [] type = T_serial    -> [ctor |-> T_integer, args |-> <<>>]
      [] type = T_numeric \/ type = T_decimal ->
            [ctor |-> T_numeric,
             args |-> IF Truthy(c.precision) /\ Truthy(c.scale)
                      THEN <<Tok("precision", "", numToString(c.precision)),
                             Tok("scale", "", numToString(c.scale))>>
                      ELSE <<>>]
      [] type = T_money ->
            [ctor |-> T_numeric,
             args |-> <<Tok("precision", "", <<"1","0">>),
                        Tok("scale", "", <<"2">>)>>]
      [] type = T_timestamp ->
            [ctor |-> T_timestamp, args |-> <<Tok("mode", "'", T_date)>>]
      [] type = T_date ->
            [ctor |-> T_date, args |-> <<Tok("mode", "'", T_date)>>]
      [] type = T_boolean   -> [ctor |-> T_boolean, args |-> <<>>]
      [] type = T_geography -> [ctor |-> T_text, args |-> <<>>]
      [] OTHER ->
            LET e == findEnumKey(type, es)
            IN  IF e.found THEN [ctor |-> toCamelCase(e.key), args |-> <<>>]
                ELSE [ctor |-> T_text, args |-> <<>>]

\* the .primaryKey() pushed for a non-serial column
columnPrimaryKey(c, hasCompositePrimaryKey) ==
    IF c.primaryKey /\ c.type # T_serial /\ ~hasCompositePrimaryKey
    THEN <<Tok("primaryKey", "", <<>>)>> ELSE <<>>

\* the constraints pushed inside the switch for a serial column
serialConstraints(type) ==
    IF type = T_serial
    THEN <<Tok("primaryKey", "", <<>>), Tok("generatedAlwaysAsIdentity", "", <<>>)>>
    ELSE <<>>

mapColumnToDrizzle(columnName, columnConfig, es, hasCompositePrimaryKey) ==
    LET c == columnConfig.dbConstraints
        head == drizzleCtor(c.type, c, es)
        constraints ==
            serialConstraints(c.type)
            \o drizzleDefault(c.type, c.default)
            \o (IF ~c.nullable /\ c.type # T_serial
                THEN <<Tok("notNull", "", <<>>)>> ELSE <<>>)
            \o (IF c.unique /\ c.type # T_serial /\ ~c.primaryKey
                THEN <<Tok("unique", "", <<>>)>> ELSE <<>>)
            \o columnPrimaryKey(c, hasCompositePrimaryKey)
            \o (IF c.references.present
                THEN <<Tok("references", c.references.onDelete,
                           toCamelCase(c.references.table) \o <<".">>
                               \o c.references.column)>>
                ELSE <<>>)
    IN  [fieldKey |-> toCamelCase(columnName), ctor |-> head.ctor,
         column |-> columnName, args |-> head.args, constraints |-> constraints]

\* the columns flagged primaryKey that are not serial, in column order
primaryKeyColumns(table) ==
    LET pk(e) == e.cfg.dbConstraints.primaryKey /\ e.cfg.dbConstraints.type # T_serial
        kept == SelectSeq(table.columns, pk)
    IN  [i \in DOMAIN kept |-> kept[i].name]

\* compositeThreshold off by one: a pair of key columns is not composite
compositeThresholdOffByOne(pkCols) == Len(pkCols) > 2

\* primaryKeyColumns.length > 1
compositeThreshold(pkCols) == Len(pkCols) > 1

\* generateTableDefinition: the columns and the constraints callback
generateTableDefinition(table, es) ==
    LET pkCols == primaryKeyColumns(table)
        hasCompositePrimaryKey == compositeThreshold(pkCols)
        columns == [i \in DOMAIN table.columns |->
                       mapColumnToDrizzle(table.columns[i].name, table.columns[i].cfg,
                                          es, hasCompositePrimaryKey)]
        pk == IF hasCompositePrimaryKey
              THEN <<[kind |-> "primaryKey", name |-> <<>>,
                      columns |-> [i \in DOMAIN pkCols |-> toCamelCase(pkCols[i])]]>>
              ELSE <<>>
        indexes == [i \in DOMAIN table.indexes |->
                       [kind |-> "index", name |-> table.indexes[i].name,
                        columns |-> [j \in DOMAIN table.indexes[i].columns |->
                                        toCamelCase(table.indexes[i].columns[j])]]]
    IN  [name |-> toCamelCase(table.tableName), table |-> table.tableName,
         columns |-> columns, constraints |-> pk \o indexes]

-----------------------------------------------------------------------------
(* models/utils/typeMapping.ts: mapToDrizzleType                           *)

drizzleTypeHead(c) ==
    CASE c.type = T_varchar ->
            [ctor |-> T_varchar,
             args |-> <<Tok("length", "", IF Truthy(c.length) THEN numToString(c.length)
                                          ELSE <<"2","5","5">>)>>,
             own |-> <<>>]
      [] c.type = T_text    -> [ctor |-> T_text, args |-> <<>>, own |-> <<>>]
      [] c.type = T_integer -> [ctor |-> T_integer, args |-> <<>>, own |-> <<>>]
      [] c.type = T_serial  ->
            [ctor |-> T_integer, args |-> <<>>,
             own |-> <<Tok("primaryKey", "", <<>>),
                       Tok("generatedAlwaysAsIdentity", "", <<>>)>>]
      [] c.type = T_numeric \/ c.type = T_decimal ->
            [ctor |-> T_numeric,
             args |-> IF Truthy(c.precision) /\ Truthy(c.scale)
                      THEN <<Tok("precision", "", numToString(c.precision)),
                             Tok("scale", "", numToString(c.scale))>>
                      ELSE <<>>,
             own |-> <<>>]
      [] c.type = T_money ->
            [ctor |-> T_numeric,
             args |-> <<Tok("precision", "", <<"1","0">>), Tok("scale", "", <<"2">>)>>,
             own |-> <<>>]
      [] c.type = T_timestamp ->
            [ctor |-> T_timestamp, args |-> <<Tok("mode", "'", T_date)>>, own |-> <<>>]
      [] c.type = T_date ->
            [ctor |-> T_date, args |-> <<Tok("mode", "'", T_date)>>, own |-> <<>>]
      [] c.type = T_boolean -> [ctor |-> T_boolean, args |-> <<>>, own |-> <<>>]
      [] c.type = T_enum    -> [ctor |-> T_enum \o <<"R","e","f">>, args |-> <<>>,
                                own |-> <<>>]
      [] c.type = T_geography -> [ctor |-> T_text, args |-> <<>>, own |-> <<>>]
      [] OTHER -> [ctor |-> T_text, args |-> <<>>, own |-> <<>>]

typeMappingDefault(c) ==
    IF c.default.kind # "undefined" /\ c.type # T_serial
    THEN IF c.default.kind = "string"
         THEN <<Tok("default", "'", c.default.s)>>
         ELSE <<Tok("default", "", defaultToString(c.default))>>
    ELSE <<>>

mapToDrizzleType(columnConfig) ==
    LET c == columnConfig.dbConstraints
        head == drizzleTypeHead(c)
        constraints ==
            (IF ~c.nullable /\ c.type # T_serial
             THEN <<Tok("notNull", "", <<>>)>> ELSE <<>>)
            \o typeMappingDefault(c)
            \o (IF c.unique /\ c.type # T_serial
                THEN <<Tok("unique", "", <<>>)>> ELSE <<>>)
            \o (IF c.primaryKey /\ c.type # T_serial
                THEN <<Tok("primaryKey", "", <<>>)>> ELSE <<>>)
    IN  [ctor |-> head.ctor, args |-> head.args,
         constraints |-> head.own \o constraints]

\* mapToZodType of typeMapping.ts: the switch on the type tag
zodTypeHead(c, v) ==
    LET type == c.type
        minTok == IF Truthy(v.min) THEN <<Tok("min", "", numToString(v.min))>> ELSE <<>>
        maxTok(n) == IF Truthy(n) THEN <<Tok("max", "", numToString(n))>> ELSE <<>>
    IN  CASE type = T_varchar \/ type = T_text ->
               <<Tok("z.string", "", <<>>)>> \o minTok
                   \o maxTok(IF Truthy(v.max) THEN v.max ELSE c.length)
                   \o (IF v.email THEN <<Tok("email", "", <<>>)>> ELSE <<>>)
                   \o (IF v.url THEN <<Tok("url", "", <<>>)>> ELSE <<>>)
                   \o (IF v.pattern # <<>> THEN <<Tok("regex", "", v.pattern)>> ELSE <<>>)
          [] type = T_integer \/ type = T_serial ->
               <<Tok("z.number", "", <<>>), Tok("int", "", <<>>)>>
                   \o minTok \o maxTok(v.max)
          [] type = T_numeric \/ type = T_decimal \/ type = T_money ->
               <<Tok("z.number", "", <<>>)>> \o minTok \o maxTok(v.max)
          [] type = T_timestamp \/ type = T_date -> <<Tok("z.date", "", <<>>)>>
          [] type = T_boolean -> <<Tok("z.boolean", "", <<>>)>>
          [] type = T_enum -> <<Tok("z.enum", "", <<>>)>>
          [] OTHER -> <<Tok("z.string", "", <<>>)>>

\* `!validation.required && !nullable`
zodMapOptional(c, v) ==
    IF v.required # "true" /\ ~c.nullable
    THEN <<Tok("optional", "", <<>>)>> ELSE <<>>

mapToZodType(columnConfig) ==
    LET c == columnConfig.dbConstraints
        v == columnConfig.validation
    IN  zodTypeHead(c, v)
            \o (IF c.nullable THEN <<Tok("nullable", "", <<>>)>> ELSE <<>>)
            \o zodMapOptional(c, v)

\* mapToTSType of typeMapping.ts: the surface type of a column
tsTypeHead(type) ==
    CASE type = T_varchar \/ type = T_text -> "string"
      [] type \in {T_integer, T_serial, T_numeric, T_decimal, T_money} -> "number"
      [] type = T_timestamp \/ type = T_date -> "Date"
      [] type = T_boolean -> "boolean"
      [] type = T_enum -> "string"
      [] OTHER -> "string"

mapToTSType(columnConfig) ==
    [base |-> tsTypeHead(columnConfig.dbConstraints.type),
     orNull |-> columnConfig.dbConstraints.nullable]

-----------------------------------------------------------------------------
(* models/generators/validation.ts: the validation emitter                 *)

PricePattern == <<"^","\\","d","+","\\",".","\\","d","{","2","}","$">>

\* `validation.max || length`
maxOrLength(v, length) == IF Truthy(v.max) THEN v.max ELSE length

zodMin(v) == IF Truthy(v.min) THEN <<Tok("min", "", numToString(v.min))>> ELSE <<>>
zodMax(n) == IF Truthy(n) THEN <<Tok("max", "", numToString(n))>> ELSE <<>>
zodRegex(v) == IF v.pattern # <<>> THEN <<Tok("regex", "", v.pattern)>> ELSE <<>>

\* a lookup that knows the tag itself but not the _enum suffix convention
zodEnumOrStringExact(type, v, es) ==
    IF \E i \in DOMAIN es : es[i].name = type
    THEN <<Tok("enumSchema", "", toCamelCase(type) \o <<"S","c","h","e","m","a">>)>>
    ELSE <<Tok("z.string", "", <<>>)>> \o zodRegex(v)

\* the default branch of the switch: an enum schema, or a generic string
zodEnumOrString(type, v, es) ==
    LET e == findEnumKey(type, es)
    IN  IF e.found
        THEN <<Tok("enumSchema", "", toCamelCase(e.key) \o <<"S","c","h","e","m","a">>)>>
        ELSE <<Tok("z.string", "", <<>>)>> \o zodRegex(v)

generateBaseZodType(columnConfig, es) ==
    LET type == columnConfig.dbConstraints.type
        length == columnConfig.dbConstraints.length
        v == columnConfig.validation
    IN  CASE type = T_varchar \/ type = T_text ->
               IF v.email
               THEN <<Tok("z.email", "", <<>>)>> \o zodMax(maxOrLength(v, length))
                        \o zodMin(v)
               ELSE IF v.url
               THEN <<Tok("z.url", "", <<>>)>> \o zodMax(maxOrLength(v, length))
                        \o zodMin(v)
               ELSE <<Tok("z.string", "", <<>>)>> \o zodMin(v)
                        \o zodMax(maxOrLength(v, length)) \o zodRegex(v)
          [] type = T_integer \/ type = T_serial ->
               <<Tok("z.number", "", <<>>), Tok("int", "", <<>>)>>
                   \o zodMin(v) \o zodMax(v.max)
          [] type = T_numeric \/ type = T_decimal \/ type = T_money ->
               <<Tok("z.string", "", <<>>),
                 Tok("regex", "Invalid price format", PricePattern)>>
          [] type = T_timestamp \/ type = T_date ->
               <<Tok("z.date", "", <<>>)>>
                   \o (IF Truthy(v.min)
                       THEN <<Tok("min", "new Date", numToString(v.min))>> ELSE <<>>)
                   \o (IF Truthy(v.max)
                       THEN <<Tok("max", "new Date", numToString(v.max))>> ELSE <<>>)
          [] type = T_boolean -> <<Tok("z.boolean", "", <<>>)>>
          [] type = T_geography -> <<Tok("z.string", "", <<>>)>> \o zodRegex(v)
          [] OTHER -> zodEnumOrString(type, v, es)

addDefaultValue(zodType, columnConfig) ==
    LET type == columnConfig.dbConstraints.type
        d == columnConfig.dbConstraints.default
    IN  IF /\ d.kind # "undefined"
           /\ type # T_serial
           /\ ~(d.kind = "string" /\ d.s = S_now)
        THEN IF d.kind = "string"
                THEN zodType \o <<Tok("default", "\"", d.s)>>
             ELSE IF d.kind = "boolean"
                THEN zodType \o <<Tok("default", "", defaultToString(d))>>
             ELSE IF type = T_numeric \/ type = T_decimal \/ type = T_money
                THEN zodType \o <<Tok("default", "\"",
                                      defaultToString(d) \o <<".","0","0">>)>>
             ELSE zodType \o <<Tok("default", "", defaultToString(d))>>
        ELSE zodType

\* baseOptional with the `!nullable` conjunct forgotten
baseOptionalOnNullable(c, v) ==
    IF v.required = "false" /\ ~c.primaryKey
    THEN <<Tok("optional", "", <<>>)>> ELSE <<>>

\* the .optional() of the base schema field
baseOptional(c, v) ==
    IF v.required = "false" /\ ~c.nullable /\ ~c.primaryKey
    THEN <<Tok("optional", "", <<>>)>> ELSE <<>>

generateBaseSchemaField(columnName, columnConfig, es) ==
    LET c == columnConfig.dbConstraints
        v == columnConfig.validation
        zodType == addDefaultValue(generateBaseZodType(columnConfig, es), columnConfig)
    IN  [fieldKey |-> toCamelCase(columnName),
         zodType |-> zodType
             \o (IF c.nullable THEN <<Tok("nullable", "", <<>>)>> ELSE <<>>)
             \o baseOptional(c, v)]

\* generateTableSchema: one base field per column, in column order
generateTableSchema(table, es) ==
    [name |-> toSingularPascalCase(table.tableName) \o <<"S","c","h","e","m","a">>,
     fields |-> [i \in DOMAIN table.columns |->
                    generateBaseSchemaField(table.columns[i].name,
                                            table.columns[i].cfg, es)]]

\* isAutoGenerated with the "now()" alternative forgotten
isAutoGeneratedSerialOnly(c) == c.type = T_serial

\* type === "serial" || defaultValue === "now()"
isAutoGenerated(c) ==
    c.type = T_serial \/ (c.default.kind = "string" /\ c.default.s = S_now)

\* insertWidens with the hasDefault alternative forgotten
insertWidensNoDefault(c, v) == c.nullable \/ v.required = "false"

\* the test that puts a column into the .extend({...}) of the insert schema
insertWidens(c, v) ==
    c.nullable \/ c.default.kind # "undefined" \/ v.required = "false"

generateInsertFieldModifications(table, es) ==
    LET mod(e) == ~isAutoGenerated(e.cfg.dbConstraints)
                  /\ insertWidens(e.cfg.dbConstraints, e.cfg.validation)
        kept == SelectSeq(table.columns, mod)
    IN  [i \in DOMAIN kept |->
            [fieldKey |-> toCamelCase(kept[i].name),
             zodType |-> addDefaultValue(generateBaseZodType(kept[i].cfg, es),
                                         kept[i].cfg)
                         \o <<Tok("optional", "", <<>>)>>]]

generateInsertSchema(table, es) ==
    LET auto(e) == isAutoGenerated(e.cfg.dbConstraints)
        autoCols == SelectSeq(table.columns, auto)
        autoGeneratedFields == [i \in DOMAIN autoCols |-> toCamelCase(autoCols[i].name)]
        modifications == generateInsertFieldModifications(table, es)
    IN  [name |-> toSingularPascalCase(table.tableName)
                      \o <<"I","n","s","e","r","t","S","c","h","e","m","a">>,
         base |-> toSingularPascalCase(table.tableName) \o <<"S","c","h","e","m","a">>,
         omit |-> autoGeneratedFields,
         extend |-> modifications]

generateUpdateSchema(table, es) ==
    LET isPk(e) == e.cfg.dbConstraints.primaryKey \/ e.cfg.dbConstraints.type = T_serial
        pks == SelectSeq(table.columns, isPk)
    IN  [name |-> toSingularPascalCase(table.tableName)
                      \o <<"U","p","d","a","t","e","S","c","h","e","m","a">>,
         base |-> toSingularPascalCase(table.tableName)
                      \o <<"I","n","s","e","r","t","S","c","h","e","m","a">>,
         partial |-> TRUE,
         extend |-> IF pks = <<>> THEN <<>>
                    ELSE <<[fieldKey |-> toCamelCase(pks[1].name),
                            zodType |-> generateBaseZodType(pks[1].cfg, es)]>>]

-----------------------------------------------------------------------------
(* models/generators/types.ts and schemaAnalysis.ts: relationship resolver *)

\* `import type { ${relatedType} } from '../${fileName}';`
importStatement(relatedType, fileName) ==
    <<"import type { ">> \o relatedType \o <<" } from '../">> \o fileName \o <<"';">>

\* imports.includes(relatedType)
includes(list, x) == \E i \in DOMAIN list : list[i] = x

\* the forEach of generateForeignKeyRelations over the columns, from `acc`
RECURSIVE foreignKeyLoop(_, _)
foreignKeyLoop(columns, acc) ==
    IF columns = <<>> THEN acc
    ELSE LET references == Head(columns).cfg.dbConstraints.references
             relationName == toSingularCamelCase(references.table)
             relatedType == toSingularPascalCase(references.table)
             fileName == toSingularCamelCase(references.table)
         IN  IF references.present
             THEN foreignKeyLoop(Tail(columns),
                    [relations |-> Append(acc.relations,
                                          [name |-> relationName, type |-> relatedType,
                                           many |-> FALSE]),
                     imports |-> IF ~includes(acc.imports, relatedType)
                                 THEN Append(acc.imports,
                                             importStatement(relatedType, fileName))
                                 ELSE acc.imports])
             ELSE foreignKeyLoop(Tail(columns), acc)

generateForeignKeyRelations(table) ==
    foreignKeyLoop(table.columns, [relations |-> <<>>, imports |-> <<>>])

\* tableName.endsWith("s") ? tableName : `${tableName}s`
pluralize(tableName) ==
    IF endsWith(tableName, <<"s">>) THEN tableName ELSE tableName \o <<"s">>

\* the test that makes generateReverseRelations skip a table of allTables
isSameTable(otherTable, table) == otherTable.tableName = table.tableName

\* the inner forEach of generateReverseRelations over one other table
RECURSIVE reverseColumnLoop(_, _, _, _)
reverseColumnLoop(columns, otherTable, currentTableName, acc) ==
    IF columns = <<>> THEN acc
    ELSE LET references == Head(columns).cfg.dbConstraints.references
             relationName == pluralize(toCamelCase(otherTable.tableName))
             relatedType == toSingularPascalCase(otherTable.tableName)
             fileName == toSingularCamelCase(otherTable.tableName)
         IN  IF references.present /\ references.table = currentTableName
             THEN reverseColumnLoop(Tail(columns), otherTable, currentTableName,
                    [relations |-> Append(acc.relations,
                                          [name |-> relationName, type |-> relatedType,
                                           many |-> TRUE]),
                     imports |-> IF ~includes(acc.imports, relatedType)
                                 THEN Append(acc.imports,
                                             importStatement(relatedType, fileName))
                                 ELSE acc.imports])
             ELSE reverseColumnLoop(Tail(columns), otherTable, currentTableName, acc)

\* the outer forEach of generateReverseRelations over allTables
RECURSIVE reverseTableLoop(_, _, _)
reverseTableLoop(others, table, acc) ==
    IF others = <<>> THEN acc
    ELSE IF isSameTable(Head(others), table)
         THEN reverseTableLoop(Tail(others), table, acc)
         ELSE reverseTableLoop(Tail(others), table,
                  reverseColumnLoop(Head(others).columns, Head(others),
                                    table.tableName, acc))

generateReverseRelations(table, all) ==
    reverseTableLoop(all, table, [relations |-> <<>>, imports |-> <<>>])

\* analyzeRelationships of schemaAnalysis.ts
analyzeRelationships(table) ==
    LET fk(e) == e.cfg.dbConstraints.references.present
        kept == SelectSeq(table.columns, fk)
        foreignKeys == [i \in DOMAIN kept |->
                           [columnName |-> kept[i].name,
                            referencedTable |-> kept[i].cfg.dbConstraints.references.table,
                            referencedColumn |->
                                kept[i].cfg.dbConstraints.references.column]]
    IN  [foreignKeys |-> foreignKeys, hasRelationships |-> Len(foreignKeys) > 0]

-----------------------------------------------------------------------------
(* The enum files of the validation and storage emitters                   *)

N_role_enum == T_role \o S_enum_suffix
N_date_enum == T_date \o S_enum_suffix

\* Object.keys(config).filter((key) => key !== "description")
enumValues(config) ==
    LET notDescription(k) == k # "description"
    IN  SelectSeq(config.keys, notDescription)

\* generateEnumSchemas of validation.ts: one z.enum per enum, in key order
generateEnumSchemas(es) ==
    [i \in DOMAIN es |->
        [schemaName |-> toCamelCase(es[i].name) \o <<"S","c","h","e","m","a">>,
         values |-> enumValues(es[i])]]

\* generateEnumDefinitions of schemas.ts: one pgEnum per enum, in key order
generateEnumDefinitions(es) ==
    [i \in DOMAIN es |->
        [name |-> toCamelCase(es[i].name), pgName |-> es[i].name,
         values |-> enumValues(es[i])]]

-----------------------------------------------------------------------------
(* Inputs of the pure-function specifications                              *)

EnumsA == <<EnumOf(T_user_status), EnumOf(N_role_enum), EnumOf(N_date_enum)>>
EnumsB == <<EnumOf(N_role_enum), EnumOf(T_role)>>
EnumSets == {EnumsA, EnumsB}

NotCalled == [called |-> FALSE]
Called(v) == [called |-> TRUE, val |-> v]

\* the name of the i-th column of a generated table: c_1, c_2, ...
ColName(i) == <<"c","_">> \o numToString(i)

IdleTable == Table(0, <<>>, TRUE, <<>>)
IdleColumn ==
    [name |-> S_id, composite |-> FALSE,
     cfg |-> Column(T_serial, FALSE, DefUndefined, FALSE, FALSE, NoRef, NoValidation)]

SpecIdle ==
    /\ dir = <<>> /\ opts = [validationOnly |-> FALSE, schemasOnly |-> FALSE,
                             typesOnly |-> FALSE]
    /\ run = 0 /\ pc = "off" /\ gen = "none" /\ loads = <<>> /\ settled = <<>>
    /\ tables = <<>>
    /\ idx = 0 /\ fs = <<>> /\ prevFs = <<>> /\ clock = 0 /\ exitCode = "off"
TableIdle ==
    /\ tbl = IdleTable /\ vres = NotCalled /\ vresSA = NotCalled /\ tdef = NotCalled
    /\ tins = NotCalled /\ tupd = NotCalled
ColIdle ==
    /\ col = IdleColumn
    /\ drz = NotCalled /\ drzType = NotCalled /\ zbase = NotCalled /\ zins = NotCalled
    /\ zmap = NotCalled /\ tsType = NotCalled
EnumIdle == enumSchemas = NotCalled /\ enumDefs = NotCalled
RelIdle ==
    /\ allTables = <<>> /\ cur = 0
    /\ fkRel = NotCalled /\ revRel = NotCalled /\ anaRel = NotCalled
    /\ artVal = NotCalled /\ artTypes = NotCalled /\ artSchema = NotCalled

-----------------------------------------------------------------------------
(* SpecTable: the validator and generateTableDefinition on one table       *)

TableColumnConfigs ==
    {Column(t, FALSE, DefUndefined, pk, FALSE, NoRef, NoValidation) :
        t \in {T_serial, T_integer, T_varchar}, pk \in BOOLEAN}

ColumnLists(cfgs, n) ==
    {[i \in 1..n |-> [name |-> ColName(i), cfg |-> f[i]]] : f \in [1..n -> cfgs]}

\* lib/config.ts IndexConfig under its name; unique absent is FALSE
Index(name, columns, unique) == [name |-> name, columns |-> columns, unique |-> unique]

N_idx_a == <<"i","d","x","_","a">>
N_idx_b == <<"i","d","x","_","b">>

\* one or two named indexes over the columns of a two-column table
IndexLists ==
    {<<Index(N_idx_a, ca, ua)>> :
        ca \in {<<ColName(2)>>, <<ColName(2), ColName(1)>>}, ua \in BOOLEAN}
    \cup {<<Index(N_idx_a, <<ColName(2)>>, ua), Index(N_idx_b, <<ColName(1)>>, ub)>> :
             ua \in BOOLEAN, ub \in BOOLEAN}

IndexedTables ==
    {[Table(1, N_users, TRUE,
            <<[name |-> ColName(1),
               cfg |-> Column(T_serial, FALSE, DefUndefined, FALSE, FALSE, NoRef,
                              NoValidation)],
              [name |-> ColName(2),
               cfg |-> Column(T_varchar, FALSE, DefUndefined, FALSE, FALSE, NoRef,
                              NoValidation)]>>)
        EXCEPT !.indexes = ix] : ix \in IndexLists}

TableInputs ==
    {Table(1, nm, TRUE, cols) :
        nm \in {<<>>, N_users},
        cols \in UNION {ColumnLists(TableColumnConfigs, n) : n \in 0..MaxCols}}
    \cup {Table(1, nm, FALSE, <<>>) : nm \in {<<>>, N_users}}
    \cup IndexedTables

InitTable ==
    /\ enums = EnumsA
    /\ tbl \in TableInputs
    /\ vres = NotCalled /\ vresSA = NotCalled /\ tdef = NotCalled
    /\ tins = NotCalled /\ tupd = NotCalled
    /\ SpecIdle /\ ColIdle /\ RelIdle /\ EnumIdle

ValidateTable ==
    /\ ~vres.called
    /\ vres' = Called(validateTableConfig(tbl))
    /\ UNCHANGED <<enums, enumVars, tbl, vresSA, tdef, tins, tupd, specVars, colVars, relVars>>

ValidateTableSA ==
    /\ ~vresSA.called
    /\ vresSA' = Called(validateTableConfigSA(tbl))
    /\ UNCHANGED <<enums, enumVars, tbl, vres, tdef, tins, tupd, specVars, colVars, relVars>>

\* generateTableSchema of schemas.ts up to the table definition: it throws
\* on a table with validation errors and only then builds the definition
TableDefinition ==
    /\ ~tdef.called
    /\ LET r == validateTableConfig(tbl)
       IN  ~r.threw /\ r.errors = <<>>
    /\ tdef' = Called(generateTableDefinition(tbl, enums))
    /\ UNCHANGED <<enums, enumVars, tbl, vres, vresSA, tins, tupd, specVars, colVars, relVars>>

NextTable == ValidateTable \/ ValidateTableSA \/ TableDefinition

SpecTable == InitTable /\ [][NextTable]_vars

-----------------------------------------------------------------------------
(* Claims about the validator and the table definition (SpecTable)         *)

NameMissing(t) == t.tableName = <<>>
ColumnSetEmpty(t) == Len(t.columns) = 0
NoKeyColumn(t) ==
    \A i \in DOMAIN t.columns :
        /\ ~t.columns[i].cfg.dbConstraints.primaryKey
        /\ t.columns[i].cfg.dbConstraints.type # T_serial

ExpectedIssues(t) ==
    (IF NameMissing(t) THEN <<E_tableName>> ELSE <<>>)
    \o (IF ColumnSetEmpty(t) THEN <<E_columns>> ELSE <<>>)
    \o (IF NoKeyColumn(t) THEN <<E_primary>> ELSE <<>>)

\* C4: on a descriptor that has a columns map, validateTableConfig (both
\* copies) returns one issue per failed check, in the order table name,
\* column set, primary key; the list is empty exactly when the table has a
\* non-empty name, at least one column and a primaryKey or serial column.
Thm_C4 ==
    \A r \in {vres, vresSA} :
        (r.called /\ tbl.hasColumns) =>
            /\ ~r.val.threw
            /\ r.val.errors = ExpectedIssues(tbl)
            /\ (r.val.errors = <<>>) <=>
                   (~NameMissing(tbl) /\ ~ColumnSetEmpty(tbl) /\ ~NoKeyColumn(tbl))

Wit_C4 ==
    /\ vres.called /\ vresSA.called
    /\ tbl.hasColumns /\ Len(tbl.columns) >= 1
    /\ vres.val.errors = <<E_tableName, E_primary>>
    /\ vresSA.val.errors = <<E_tableName, E_primary>>

\* C5: validateTableConfig never throws, for any descriptor, including one
\* whose columns field is absent: every call returns a list.
Cex_C5 == \A r \in {vres, vresSA} : r.called => ~r.val.threw

KeyColumns(t) ==
    {i \in DOMAIN t.columns : t.columns[i].cfg.dbConstraints.primaryKey}
SerialColumns(t) ==
    {i \in DOMAIN t.columns : t.columns[i].cfg.dbConstraints.type = T_serial}

\* the i-th key column in column order
RECURSIVE KeysInOrder(_, _)
KeysInOrder(t, from) ==
    IF from > Len(t.columns) THEN <<>>
    ELSE (IF from \in KeyColumns(t) THEN <<toCamelCase(t.columns[from].name)>> ELSE <<>>)
         \o KeysInOrder(t, from + 1)

CompositeConstraints(d) ==
    {i \in DOMAIN d.constraints : d.constraints[i].kind = "primaryKey"}

\* C7: a table with two or more non-serial primaryKey columns and no serial
\* column gets exactly one table-level primaryKey constraint, listing
\* exactly those columns in column order, and no column carries a
\* per-column .primaryKey() modifier.
Thm_C7 ==
    (tdef.called /\ Cardinality(KeyColumns(tbl)) >= 2 /\ SerialColumns(tbl) = {}) =>
        /\ Cardinality(CompositeConstraints(tdef.val)) = 1
        /\ \A i \in CompositeConstraints(tdef.val) :
               tdef.val.constraints[i].columns = KeysInOrder(tbl, 1)
        /\ \A i \in DOMAIN tdef.val.columns :
               ~HasTok(tdef.val.columns[i].constraints, "primaryKey")

Wit_C7 ==
    /\ tdef.called
    /\ Len(tbl.columns) = 3 /\ KeyColumns(tbl) = {1, 3} /\ SerialColumns(tbl) = {}
    /\ Len(tdef.val.constraints) = 1
    /\ tdef.val.constraints[1].columns = <<<<"c","1">>, <<"c","3">>>>

\* the columns of the emitted table that carry a .primaryKey() modifier
ModifierColumns(d) ==
    {i \in DOMAIN d.columns : HasTok(d.columns[i].constraints, "primaryKey")}

\* C26: the storage table of a table that passes validation declares its
\* primary key once: one column with the .primaryKey() modifier and no
\* table-level constraint, or one table-level constraint and no column with
\* the modifier; also when a serial column is mixed with primaryKey columns.
Cex_C26 ==
    tdef.called =>
        \/ /\ Cardinality(ModifierColumns(tdef.val)) = 1
           /\ \A i \in ModifierColumns(tdef.val) :
                  CountTok(tdef.val.columns[i].constraints, "primaryKey") = 1
           /\ CompositeConstraints(tdef.val) = {}
        \/ /\ ModifierColumns(tdef.val) = {}
           /\ Cardinality(CompositeConstraints(tdef.val)) = 1

\* the constraints of the emitted table that carry the name of an index
EmittedIndexes(d, name) ==
    {k \in DOMAIN d.constraints :
        d.constraints[k].kind \in {"index", "uniqueIndex"} /\ d.constraints[k].name = name}

\* C27: for every named index of the table the emitted table has one
\* constraint with the index's name and its column list, and that
\* constraint is a unique index exactly when the descriptor flags the index
\* unique.
Cex_C27 ==
    tdef.called =>
        \A i \in DOMAIN tbl.indexes :
            /\ Cardinality(EmittedIndexes(tdef.val, tbl.indexes[i].name)) = 1
            /\ \A k \in EmittedIndexes(tdef.val, tbl.indexes[i].name) :
                   /\ tdef.val.constraints[k].columns =
                          [j \in DOMAIN tbl.indexes[i].columns |->
                              toCamelCase(tbl.indexes[i].columns[j])]
                   /\ (tdef.val.constraints[k].kind = "uniqueIndex")
                          <=> tbl.indexes[i].unique

-----------------------------------------------------------------------------
(* SpecSchemas: the insert and update schemas of one table                 *)

N_user_roles == <<"u","s","e","r","_","r","o","l","e","s">>

SchemaColumnConfigs ==
    {Column(T_serial, FALSE, DefUndefined, FALSE, FALSE, NoRef, NoValidation),
     Column(T_integer, FALSE, DefUndefined, TRUE, FALSE, NoRef, NoValidation),
     Column(T_text, FALSE, DefUndefined, FALSE, FALSE, NoRef, NoValidation),
     Column(T_text, TRUE, DefUndefined, FALSE, FALSE, NoRef, NoValidation),
     Column(T_text, FALSE, DefString(S_pending), FALSE, FALSE, NoRef, NoValidation),
     Column(T_timestamp, FALSE, DefString(S_now), FALSE, FALSE, NoRef, NoValidation),
     Column(T_text, FALSE, DefUndefined, FALSE, FALSE, NoRef,
            [NoValidation EXCEPT !.required = "false"]),
     Column(T_boolean, FALSE, DefBoolean(TRUE), FALSE, FALSE, NoRef,
            [NoValidation EXCEPT !.required = "true"])}

InitSchemas ==
    /\ enums = EnumsA
    /\ tbl \in {Table(1, N_user_roles, TRUE, cols) :
                   cols \in UNION {ColumnLists(SchemaColumnConfigs, n) : n \in 1..MaxCols}}
    /\ vres = NotCalled /\ vresSA = NotCalled /\ tdef = NotCalled
    /\ tins = NotCalled /\ tupd = NotCalled
    /\ SpecIdle /\ ColIdle /\ RelIdle /\ EnumIdle

TableInsertSchema ==
    /\ ~tins.called
    /\ tins' = Called(generateInsertSchema(tbl, enums))
    /\ UNCHANGED <<enums, enumVars, tbl, vres, vresSA, tdef, tupd, specVars, colVars, relVars>>

TableUpdateSchema ==
    /\ ~tupd.called
    /\ tupd' = Called(generateUpdateSchema(tbl, enums))
    /\ UNCHANGED <<enums, enumVars, tbl, vres, vresSA, tdef, tins, specVars, colVars, relVars>>

NextSchemas == TableInsertSchema \/ TableUpdateSchema

SpecSchemas == InitSchemas /\ [][NextSchemas]_vars

\* what the emitted zod expressions denote: Base.omit({k: true, ...}) drops
\* the fields k, .extend({...}) replaces the fields it names, and .partial()
\* makes every field optional
OmitFields(fields, keys) ==
    LET keep(f) == ~includes(keys, f.fieldKey) IN SelectSeq(fields, keep)

ExtendFields(fields, ext) ==
    LET named(k) == {j \in DOMAIN ext : ext[j].fieldKey = k}
        fresh(e) == \A i \in DOMAIN fields : fields[i].fieldKey # e.fieldKey
    IN  [i \in DOMAIN fields |->
            IF named(fields[i].fieldKey) # {}
            THEN ext[CHOOSE j \in named(fields[i].fieldKey) : TRUE]
            ELSE fields[i]] \o SelectSeq(ext, fresh)

PartialFields(fields) ==
    [i \in DOMAIN fields |->
        [fields[i] EXCEPT !.zodType = @ \o <<Tok("optional", "", <<>>)>>]]

InsertShape(table, ins, es) ==
    ExtendFields(OmitFields(generateTableSchema(table, es).fields, ins.omit),
                 ins.extend)

UpdateShape(table, ins, upd, es) ==
    ExtendFields(PartialFields(InsertShape(table, ins, es)), upd.extend)

FieldsKeyed(shape, k) == {i \in DOMAIN shape : shape[i].fieldKey = k}

IsOptionalField(f) == HasTok(f.zodType, "optional")

\* a column that is of type serial or has default "now()"
AutoColumn(c) == c.type = T_serial \/ c.default = DefString(S_now)

\* a column that is nullable, has a default, or has validation.required = false
WidenedColumn(cfg) ==
    \/ cfg.dbConstraints.nullable
    \/ cfg.dbConstraints.default # DefUndefined
    \/ cfg.validation.required = "false"

\* C12: the insert schema omits exactly the columns that are serial or have
\* default "now()", keeps every other column of the base schema, and makes
\* optional exactly the kept columns that are nullable, have a default or
\* have validation.required = false.
Thm_C12 ==
    tins.called =>
        LET shape == InsertShape(tbl, tins.val, enums)
            kept == {i \in DOMAIN tbl.columns : ~AutoColumn(tbl.columns[i].cfg.dbConstraints)}
        IN  /\ Len(shape) = Cardinality(kept)
            /\ \A i \in DOMAIN tbl.columns :
                   LET k == toCamelCase(tbl.columns[i].name)
                   IN  IF i \in kept
                       THEN /\ Cardinality(FieldsKeyed(shape, k)) = 1
                            /\ ~includes(tins.val.omit, k)
                            /\ \A j \in FieldsKeyed(shape, k) :
                                   IsOptionalField(shape[j])
                                       <=> WidenedColumn(tbl.columns[i].cfg)
                       ELSE /\ FieldsKeyed(shape, k) = {}
                            /\ includes(tins.val.omit, k)

Wit_C12 ==
    /\ tins.called
    /\ Len(tbl.columns) = 3
    /\ tbl.columns[1].cfg.dbConstraints.type = T_serial
    /\ tbl.columns[2].cfg.dbConstraints.default = DefString(S_now)
    /\ tbl.columns[3].cfg.dbConstraints.nullable
    /\ tins.val.omit = <<toCamelCase(ColName(1)), toCamelCase(ColName(2))>>
    /\ Len(tins.val.extend) = 1

PrimaryKeyColumn(c) == c.primaryKey \/ c.type = T_serial

\* C13: in the update schema every column that is flagged primaryKey or is
\* serial is a required field, each column of a composite primary key
\* included, and every other field of the insert schema is optional.
Cex_C13 ==
    (tins.called /\ tupd.called) =>
        LET shape == UpdateShape(tbl, tins.val, tupd.val, enums)
        IN  \A i \in DOMAIN tbl.columns :
                LET k == toCamelCase(tbl.columns[i].name)
                IN  IF PrimaryKeyColumn(tbl.columns[i].cfg.dbConstraints)
                    THEN /\ FieldsKeyed(shape, k) # {}
                         /\ \A j \in FieldsKeyed(shape, k) : ~IsOptionalField(shape[j])
                    ELSE \A j \in FieldsKeyed(shape, k) : IsOptionalField(shape[j])

-----------------------------------------------------------------------------
(* SpecStorage: the two storage-type mappers on one column                 *)

TypeTags == BuiltinTags \cup {T_enum, T_user_status, T_role, T_point}

Defaults ==
    {DefUndefined, DefNull, DefString(S_pending), DefString(S_now), DefNumber(5),
     DefFraction(12, <<"5">>), DefBoolean(TRUE)}

StorageColumns ==
    {Column(t, n, d, pk, u, r, NoValidation) :
        t \in TypeTags, n \in BOOLEAN, d \in Defaults, pk \in BOOLEAN, u \in BOOLEAN,
        r \in {NoRef, Ref(N_users, S_id, "cascade")}}

\* numeric and decimal columns with a declared or absent precision and scale
Precisions == {NoNum, 0, 10}
Scales == {NoNum, 0, 2}

PrecisionColumns ==
    {[c EXCEPT !.dbConstraints.precision = p, !.dbConstraints.scale = sc] :
        c \in {Column(t, FALSE, DefUndefined, FALSE, FALSE, NoRef, NoValidation) :
                  t \in {T_numeric, T_decimal}},
        p \in Precisions, sc \in Scales}

InitStorage ==
    /\ enums \in EnumSets
    /\ col \in {[name |-> N_user_id, composite |-> k, cfg |-> c] :
                   k \in BOOLEAN, c \in StorageColumns \cup PrecisionColumns}
    /\ drz = NotCalled /\ drzType = NotCalled /\ zbase = NotCalled /\ zins = NotCalled
    /\ zmap = NotCalled /\ tsType = NotCalled
    /\ SpecIdle /\ TableIdle /\ RelIdle /\ EnumIdle

MapColumnToDrizzle ==
    /\ ~drz.called
    /\ drz' = Called(mapColumnToDrizzle(col.name, col.cfg, enums, col.composite))
    /\ UNCHANGED <<enums, enumVars, col, drzType, zbase, zins, zmap, tsType,
                   specVars, tableVars, relVars>>

MapToDrizzleType ==
    /\ ~drzType.called
    /\ drzType' = Called(mapToDrizzleType(col.cfg))
    /\ UNCHANGED <<enums, enumVars, col, drz, zbase, zins, zmap, tsType,
                   specVars, tableVars, relVars>>

NextStorage == MapColumnToDrizzle \/ MapToDrizzleType

SpecStorage == InitStorage /\ [][NextStorage]_vars

\* C6: the storage expression of a serial column, whatever its nullable,
\* default, unique and primaryKey flags, has no .notNull(), no .default()
\* or .defaultNow() and no .unique(), and carries .primaryKey() (once); this
\* holds of mapColumnToDrizzle and of mapToDrizzleType.
Thm_C6 ==
    \A r \in {drz, drzType} :
        (r.called /\ col.cfg.dbConstraints.type = T_serial) =>
            /\ ~HasTok(r.val.constraints, "notNull")
            /\ ~HasTok(r.val.constraints, "default")
            /\ ~HasTok(r.val.constraints, "defaultNow")
            /\ ~HasTok(r.val.constraints, "unique")
            /\ CountTok(r.val.constraints, "primaryKey") = 1

Wit_C6 ==
    /\ drz.called /\ drzType.called
    /\ col.cfg.dbConstraints.type = T_serial
    /\ ~col.cfg.dbConstraints.nullable /\ col.cfg.dbConstraints.unique
    /\ col.cfg.dbConstraints.primaryKey
    /\ col.cfg.dbConstraints.default = DefNumber(5)
    /\ ~col.cfg.dbConstraints.references.present
    /\ drz.val.constraints = <<Tok("primaryKey", "", <<>>),
                               Tok("generatedAlwaysAsIdentity", "", <<>>)>>

NumericFamily == {T_numeric, T_decimal, T_money}

DefaultToks(cs) == LET isDefault(t) == t.m = "default" IN SelectSeq(cs, isDefault)

\* the default is rendered once, as a quoted literal
QuotedDefault(cs) ==
    /\ Len(DefaultToks(cs)) = 1
    /\ DefaultToks(cs)[1].q = "'"

\* C21: for every numeric, decimal or money column that has a default, the
\* storage-type expression (of mapColumnToDrizzle and of mapToDrizzleType)
\* renders the default as a quoted literal, never as a bare number.
Cex_C21 ==
    \A r \in {drz, drzType} :
        (/\ r.called
         /\ col.cfg.dbConstraints.type \in NumericFamily
         /\ col.cfg.dbConstraints.default.kind = "number") =>
            QuotedDefault(r.val.constraints)

Declared(n) == n # NoNum

\* C22: for a numeric or decimal column, the storage type carries the
\* declared precision and scale unchanged when both are declared (scale 0
\* included), and is the untyped numeric form exactly when at least one of
\* the two is not declared.
Cex_C22 ==
    \A r \in {drz, drzType} :
        (r.called /\ col.cfg.dbConstraints.type \in {T_numeric, T_decimal}) =>
            LET c == col.cfg.dbConstraints
            IN  /\ r.val.ctor = T_numeric
                /\ IF Declared(c.precision) /\ Declared(c.scale)
                   THEN r.val.args = <<Tok("precision", "", numToString(c.precision)),
                                       Tok("scale", "", numToString(c.scale))>>
                   ELSE r.val.args = <<>>

-----------------------------------------------------------------------------
(* SpecZod: the validation emitter on one column                           *)

Requireds == {"absent", "true", "false"}

ZodColumns ==
    {Column(t, n, d, pk, FALSE, NoRef,
            [NoValidation EXCEPT !.required = rq]) :
        t \in TypeTags, n \in BOOLEAN, d \in Defaults, pk \in BOOLEAN,
        rq \in Requireds}

OneColumnTable(c) ==
    Table(1, N_users, TRUE, <<[name |-> c.name, cfg |-> c.cfg]>>)

\* integer and string columns with declared or absent validation bounds
MinBounds == {NoNum, 0, 3}
MaxBounds == {NoNum, 0, 9}

BoundColumns ==
    {Column(t, FALSE, DefUndefined, FALSE, FALSE, NoRef,
            [NoValidation EXCEPT !.min = lo, !.max = hi]) :
        t \in {T_integer, T_varchar, T_text}, lo \in MinBounds, hi \in MaxBounds}

InitZod ==
    /\ enums \in EnumSets
    /\ col \in {[name |-> N_status, composite |-> FALSE, cfg |-> c] :
                   c \in ZodColumns \cup BoundColumns}
    /\ drz = NotCalled /\ drzType = NotCalled /\ zbase = NotCalled /\ zins = NotCalled
    /\ zmap = NotCalled /\ tsType = NotCalled
    /\ SpecIdle /\ TableIdle /\ RelIdle /\ EnumIdle

BaseSchemaField ==
    /\ ~zbase.called
    /\ zbase' = Called(generateBaseSchemaField(col.name, col.cfg, enums))
    /\ UNCHANGED <<enums, enumVars, col, drz, drzType, zins, zmap, tsType,
                   specVars, tableVars, relVars>>

InsertSchema ==
    /\ ~zins.called
    /\ zins' = Called(generateInsertSchema(OneColumnTable(col), enums))
    /\ UNCHANGED <<enums, enumVars, col, drz, drzType, zbase, zmap, tsType,
                   specVars, tableVars, relVars>>

MapToZodType ==
    /\ ~zmap.called
    /\ zmap' = Called(mapToZodType(col.cfg))
    /\ UNCHANGED <<enums, enumVars, col, drz, drzType, zbase, zins, tsType, specVars, tableVars,
                   relVars>>

MapToTSType ==
    /\ ~tsType.called
    /\ tsType' = Called(mapToTSType(col.cfg))
    /\ UNCHANGED <<enums, enumVars, col, drz, drzType, zbase, zins, zmap, specVars, tableVars,
                   relVars>>

NextZod ==
    BaseSchemaField \/ InsertSchema \/ MapToZodType \/ MapToTSType \/ MapColumnToDrizzle

SpecZod == InitZod /\ [][NextZod]_vars

\* the enums of the set that the column's type tag names, directly or with
\* the _enum suffix
NamedEnums(type, es) ==
    {i \in DOMAIN es : es[i].name = type \/ es[i].name = type \o S_enum_suffix}

\* the zod expression is the validation schema of an enum that the tag
\* names, with default d attached and nothing else
EnumWithDefault(zodType, type, es, d) ==
    /\ Len(zodType) >= 2
    /\ zodType[1].m = "enumSchema"
    /\ \E i \in NamedEnums(type, es) :
           zodType[1].a = generateEnumSchemas(es)[i].schemaName
    /\ zodType[2] = Tok("default", "\"", d)

\* the insert schema of the one-column table marks the field optional
InsertMarksOptional(ins, fieldKey) ==
    /\ ~includes(ins.omit, fieldKey)
    /\ \E i \in DOMAIN ins.extend :
           /\ ins.extend[i].fieldKey = fieldKey
           /\ ins.extend[i].zodType[Len(ins.extend[i].zodType)].m = "optional"

EnumDefaultCase ==
    /\ zbase.called /\ zins.called
    /\ ~col.cfg.dbConstraints.nullable
    /\ NamedEnums(col.cfg.dbConstraints.type, enums) # {}
    /\ col.cfg.dbConstraints.default.kind = "string"

\* C10 as stated: for a non-nullable column whose type tag names an enum of
\* the enum set and which has a string default d, the base field is the
\* enum's schema with default d, with no nullable and no optional modifier,
\* and the insert schema marks the field optional.
Cex_C10 ==
    EnumDefaultCase =>
        /\ EnumWithDefault(zbase.val.zodType, col.cfg.dbConstraints.type, enums,
                           col.cfg.dbConstraints.default.s)
        /\ Len(zbase.val.zodType) = 2
        /\ InsertMarksOptional(zins.val, zbase.val.fieldKey)

\* C10 amended: the same for a tag that is not a built-in tag and a default
\* other than "now()", the base field carrying .optional() exactly when
\* validation.required is false and the column is not flagged primaryKey.
Thm_C10 ==
    (/\ EnumDefaultCase
     /\ col.cfg.dbConstraints.type \notin BuiltinTags
     /\ col.cfg.dbConstraints.default.s # S_now) =>
        /\ EnumWithDefault(zbase.val.zodType, col.cfg.dbConstraints.type, enums,
                           col.cfg.dbConstraints.default.s)
        /\ ~HasTok(zbase.val.zodType, "nullable")
        /\ IF /\ col.cfg.validation.required = "false"
              /\ ~col.cfg.dbConstraints.primaryKey
           THEN /\ Len(zbase.val.zodType) = 3
                /\ zbase.val.zodType[3] = Tok("optional", "", <<>>)
           ELSE Len(zbase.val.zodType) = 2
        /\ InsertMarksOptional(zins.val, zbase.val.fieldKey)

Wit_C10 ==
    /\ EnumDefaultCase
    /\ col.cfg.dbConstraints.type = T_user_status
    /\ col.cfg.dbConstraints.default = DefString(S_pending)
    /\ col.cfg.validation.required = "absent"
    /\ zbase.val.zodType =
           <<Tok("enumSchema", "", <<"u","s","e","r","S","t","a","t","u","s",
                                     "S","c","h","e","m","a">>),
             Tok("default", "\"", S_pending)>>
    /\ Len(zins.val.extend) = 1

\* the nullable / optional rule on one emitted validation expression
NullableOptionalRule(zt, cfg) ==
    /\ ~(HasTok(zt, "nullable") /\ HasTok(zt, "optional"))
    /\ cfg.dbConstraints.nullable =>
           /\ zt[Len(zt)] = Tok("nullable", "", <<>>)
           /\ ~HasTok(zt, "optional")
    /\ HasTok(zt, "optional") =>
           /\ cfg.validation.required # "true"
           /\ ~cfg.dbConstraints.nullable

\* C11: the base validation expression of a column (generateBaseSchemaField
\* and mapToZodType) never carries both .nullable() and .optional(): a
\* nullable column ends in .nullable() without .optional(), and .optional()
\* appears only on a column that is not required and not nullable, whatever
\* its default.
Thm_C11 ==
    /\ zbase.called => NullableOptionalRule(zbase.val.zodType, col.cfg)
    /\ zmap.called => NullableOptionalRule(zmap.val, col.cfg)

Wit_C11 ==
    /\ zbase.called /\ zmap.called
    /\ col.cfg.dbConstraints.nullable
    /\ col.cfg.dbConstraints.type = T_text
    /\ col.cfg.dbConstraints.default = DefString(S_pending)
    /\ col.cfg.validation.required = "false"
    /\ zbase.val.zodType = <<Tok("z.string", "", <<>>), Tok("default", "\"", S_pending),
                             Tok("nullable", "", <<>>)>>
    /\ zmap.val = <<Tok("z.string", "", <<>>), Tok("nullable", "", <<>>)>>

\* the kind of value an emitted validation expression accepts, read off its
\* head: z.string()/z.email()/z.url() and an enum schema accept strings
AcceptedKind(zt) ==
    CASE zt[1].m \in {"z.string", "z.email", "z.url", "enumSchema"} -> "string"
      [] zt[1].m = "z.number" -> "number"
      [] zt[1].m = "z.boolean" -> "boolean"
      [] zt[1].m = "z.date" -> "Date"

\* C17: for every type tag, the kind of value the column's validation
\* expression accepts (string, number, boolean or date) is the kind its
\* surface type from mapToTSType names.
Cex_C17 ==
    (zbase.called /\ tsType.called) =>
        AcceptedKind(zbase.val.zodType) = tsType.val.base

-----------------------------------------------------------------------------
(* SpecRel: the relationship resolver on a table of a loaded table set     *)

RelNames == {N_guests, N_staff}

IdColumn == Column(T_serial, FALSE, DefUndefined, FALSE, FALSE, NoRef, NoValidation)
FkColumn(t) ==
    Column(T_integer, FALSE, DefUndefined, FALSE, FALSE, Ref(t, S_id, ""), NoValidation)

\* an id column followed by up to two foreign-key columns
RelColumnLists ==
    {<<[name |-> ColName(1), cfg |-> IdColumn]>>
        \o [i \in DOMAIN f |-> [name |-> ColName(i + 1), cfg |-> FkColumn(f[i])]] :
        f \in UNION {[1..n -> RelNames] : n \in 0..2}}

\* table sets of 1..MaxTables descriptor files; the file is the position
RelTableSets ==
    UNION {{[i \in 1..n |-> Table(i, nm[i], TRUE, cs[i])] :
               nm \in [1..n -> RelNames], cs \in [1..n -> RelColumnLists]} :
           n \in 1..MaxTables}

InitRel ==
    /\ enums = EnumsA
    /\ allTables \in RelTableSets
    /\ cur \in DOMAIN allTables
    /\ fkRel = NotCalled /\ revRel = NotCalled /\ anaRel = NotCalled
    /\ artVal = NotCalled /\ artTypes = NotCalled /\ artSchema = NotCalled
    /\ SpecIdle /\ TableIdle /\ ColIdle /\ EnumIdle

ForeignKeyRelations ==
    /\ ~fkRel.called
    /\ fkRel' = Called(generateForeignKeyRelations(allTables[cur]))
    /\ UNCHANGED <<enums, enumVars, allTables, cur, revRel, anaRel, artVal, artTypes, artSchema,
                   specVars, tableVars, colVars>>

ReverseRelations ==
    /\ ~revRel.called
    /\ revRel' = Called(generateReverseRelations(allTables[cur], allTables))
    /\ UNCHANGED <<enums, enumVars, allTables, cur, fkRel, anaRel, artVal, artTypes, artSchema,
                   specVars, tableVars, colVars>>

AnalyzeRelationships ==
    /\ ~anaRel.called
    /\ anaRel' = Called(analyzeRelationships(allTables[cur]))
    /\ UNCHANGED <<enums, enumVars, allTables, cur, fkRel, revRel, artVal, artTypes, artSchema,
                   specVars, tableVars, colVars>>

NextRel == ForeignKeyRelations \/ ReverseRelations \/ AnalyzeRelationships

SpecRel == InitRel /\ [][NextRel]_vars

\* the columns of table a that reference a table named nm
RefsTo(a, nm) ==
    {i \in DOMAIN allTables[a].columns :
        /\ allTables[a].columns[i].cfg.dbConstraints.references.present
        /\ allTables[a].columns[i].cfg.dbConstraints.references.table = nm}

DistinctNames ==
    \A a, b \in DOMAIN allTables :
        a # b => allTables[a].tableName # allTables[b].tableName

EntriesNamed(rels, nm) == {i \in DOMAIN rels : rels[i].name = nm}

\* C8: for distinct tables A and B of the loaded set (table names pairwise
\* distinct) where A has a foreign key to B, the incoming relations of B
\* hold exactly one entry naming A (pluralized) and the outgoing relations
\* of A hold exactly one entry naming B.
Cex_C8 ==
    DistinctNames =>
        \A a, b \in DOMAIN allTables :
            (a # b /\ RefsTo(a, allTables[b].tableName) # {}) =>
                /\ (cur = b /\ revRel.called) =>
                       Cardinality(EntriesNamed(revRel.val.relations,
                           pluralize(toCamelCase(allTables[a].tableName)))) = 1
                /\ (cur = a /\ fkRel.called) =>
                       Cardinality(EntriesNamed(fkRel.val.relations,
                           toSingularCamelCase(allTables[b].tableName))) = 1
                /\ (cur = a /\ anaRel.called) =>
                       Cardinality({i \in DOMAIN anaRel.val.foreignKeys :
                           anaRel.val.foreignKeys[i].referencedTable
                               = allTables[b].tableName}) = 1

\* the foreign-key columns of the other table objects that reference the
\* name of table t
RECURSIVE IncomingFromOthers(_, _)
IncomingFromOthers(t, from) ==
    IF from > Len(allTables) THEN 0
    ELSE (IF from # t THEN Cardinality(RefsTo(from, allTables[t].tableName)) ELSE 0)
         + IncomingFromOthers(t, from + 1)

\* C9: for a table T with a foreign key to itself, the incoming relations
\* of T hold no entry from T and one entry for every reference to T from
\* every other table object of allTables.
Cex_C9 ==
    (revRel.called /\ RefsTo(cur, allTables[cur].tableName) # {}) =>
        Len(revRel.val.relations) = IncomingFromOthers(cur, 1)

-----------------------------------------------------------------------------
(* lib/template.ts generateFileHeader and the per-file emitters            *)

\* generateFileHeader: the description and `new Date().toISOString()`
generateFileHeader(description) ==
    [description |-> description, generatedAt |-> clock]

\* the type tags of the columns that name an enum, first occurrences only
usedEnumsUnique(table, es) ==
    LET types == [i \in DOMAIN table.columns |-> table.columns[i].cfg.dbConstraints.type]
        isEnum(t) == findEnumKey(t, es).found
    IN  uniqueFilter(SelectSeq(types, isEnum))

\* generateTableValidation: throws on validation errors, else the content
generateTableValidation(table, es) ==
    LET errors == validateTableConfig(table)
        used == usedEnumsUnique(table, es)
        tableName == toSingularPascalCase(table.tableName)
    IN  IF errors.threw \/ errors.errors # <<>>
        THEN [threw |-> TRUE]
        ELSE [threw |-> FALSE,
              content |->
                [header |-> generateFileHeader(
                     <<"Zod validation schemas for ">> \o table.tableName \o <<" table">>),
                 enumImports |-> [i \in DOMAIN used |->
                     toCamelCase(findEnumKey(used[i], es).key)
                         \o <<"S","c","h","e","m","a">>],
                 base |-> generateTableSchema(table, es),
                 insert |-> generateInsertSchema(table, es),
                 update |-> generateUpdateSchema(table, es),
                 types |-> <<tableName, tableName \o <<"I","n","s","e","r","t">>,
                             tableName \o <<"U","p","d","a","t","e">>>>]]

\* generateApiTypes: the names of the five interfaces it declares
generateApiTypes(table) ==
    LET baseName == toSingularPascalCase(table.tableName)
    IN  <<toPascalCase(table.tableName) \o <<"ListResponse">>,
          baseName \o <<"Response">>,
          baseName \o <<"CreateRequest">>,
          baseName \o <<"UpdateRequest">>,
          baseName \o <<"DeleteResponse">>>>

\* generateRelationshipTypes: the names of the interfaces it declares, the
\* WithRelations one and one per foreign-key relation; none without relations
generateRelationshipTypes(table, all) ==
    LET baseName == toSingularPascalCase(table.tableName)
        fkRelations == generateForeignKeyRelations(table)
        reverseRelations == generateReverseRelations(table, all)
        allRelations == fkRelations.relations \o reverseRelations.relations
    IN  IF allRelations = <<>> THEN <<>>
        ELSE <<baseName \o <<"WithRelations">>>>
                 \o [i \in DOMAIN fkRelations.relations |->
                        baseName \o <<"With">>
                            \o toPascalCase(fkRelations.relations[i].name)]

\* generateTableTypes: throws on validation errors, and when the reverse
\* scan reads Object.entries of another table that has no columns
generateTableTypes(table, es, all) ==
    LET errors == validateTableConfig(table)
        baseName == toSingularPascalCase(table.tableName)
        fkRelations == generateForeignKeyRelations(table)
        reverseRelations == generateReverseRelations(table, all)
    IN  IF \/ errors.threw \/ errors.errors # <<>>
           \/ \E i \in DOMAIN all : ~isSameTable(all[i], table) /\ ~all[i].hasColumns
        THEN [threw |-> TRUE]
        ELSE [threw |-> FALSE,
              content |->
                [header |-> generateFileHeader(
                     <<"TypeScript extension types for ">> \o table.tableName
                         \o <<" table">>),
                 imported |-> <<baseName, baseName \o <<"I","n","s","e","r","t">>,
                                baseName \o <<"U","p","d","a","t","e">>>>,
                 relationImports |->
                     uniqueFilter(fkRelations.imports \o reverseRelations.imports),
                 reexported |-> <<baseName, baseName \o <<"I","n","s","e","r","t">>,
                                  baseName \o <<"U","p","d","a","t","e">>>>,
                 relations |-> fkRelations.relations \o reverseRelations.relations,
                 specific |-> fkRelations.relations,
                 apiTypes |-> generateApiTypes(table),
                 relationshipTypes |-> generateRelationshipTypes(table, all)]]

\* the drizzle-orm/pg-core constructors that generateTableSchema imports
pgCoreImports(table) ==
    LET ctorOf(t) ==
            CASE t = T_varchar -> {"varchar"}
              [] t = T_text -> {"text"}
              [] t = T_integer \/ t = T_serial -> {"integer"}
              [] t = T_numeric \/ t = T_decimal \/ t = T_money -> {"numeric"}
              [] t = T_timestamp -> {"timestamp"}
              [] t = T_date -> {"date"}
              [] t = T_boolean -> {"boolean"}
              [] OTHER -> {}
    IN  {"pgTable"}
        \cup UNION {ctorOf(table.columns[i].cfg.dbConstraints.type) :
                       i \in DOMAIN table.columns}
        \cup (IF Len(table.indexes) > 0 THEN {"index"} ELSE {})
        \cup (IF Len(primaryKeyColumns(table)) > 1 THEN {"primaryKey"} ELSE {})

\* generateTableSchema of schemas.ts: throws on validation errors
generateDrizzleTableSchema(table, es) ==
    LET errors == validateTableConfig(table)
        types == [i \in DOMAIN table.columns |-> table.columns[i].cfg.dbConstraints.type]
        isEnum(t) == findEnumKey(t, es).found
        usedEnums == SelectSeq(types, isEnum)
        hasRef(e) == e.cfg.dbConstraints.references.present
        refCols == SelectSeq(table.columns, hasRef)
        referencedTables ==
            uniqueFilter([i \in DOMAIN refCols |->
                             refCols[i].cfg.dbConstraints.references.table])
    IN  IF errors.threw \/ errors.errors # <<>>
        THEN [threw |-> TRUE]
        ELSE [threw |-> FALSE,
              content |->
                [header |-> generateFileHeader(
                     <<"Drizzle schema for ">> \o table.tableName \o <<" table">>),
                 pgCore |-> pgCoreImports(table),
                 enumImports |-> [i \in DOMAIN usedEnums |->
                     toCamelCase(findEnumKey(usedEnums[i], es).key)],
                 tableImports |-> [i \in DOMAIN referencedTables |->
                     [name |-> toCamelCase(referencedTables[i]),
                      file |-> toSingularCamelCase(referencedTables[i])]],
                 definition |-> generateTableDefinition(table, es)]]

\* the per-table emitter of a generator and the artifact kind it writes
emitTable(g, table, es, all) ==
    CASE g = "validation" -> generateTableValidation(table, es)
      [] g = "types"      -> generateTableTypes(table, es, all)
      [] g = "schema"     -> generateDrizzleTableSchema(table, es)

\* generateEnumsValidation, generateEnumsTypes, generateEnumsFile
emitEnums(g, es) ==
    CASE g = "validation" ->
            [header |-> generateFileHeader(<<"Zod enum validation schemas">>),
             schemas |-> generateEnumSchemas(es),
             types |-> [i \in DOMAIN es |-> toPascalCase(es[i].name)]]
      [] g = "types" ->
            [header |-> generateFileHeader(<<"TypeScript enum extension types">>),
             reexported |-> [i \in DOMAIN es |-> toPascalCase(es[i].name)]]
      [] g = "schema" ->
            [header |-> generateFileHeader(<<"Drizzle enum definitions">>),
             definitions |-> generateEnumDefinitions(es)]

\* utils/aggregation.ts generateModelAggregation: the enum export, then one
\* export line per table in array order
generateModelAggregation(ts, type) ==
    [header |-> generateFileHeader(
         CASE type = "schema" -> <<"Database schema aggregation for Drizzle Kit">>
           [] type = "types" -> <<"Types aggregation">>
           [] type = "validation" -> <<"Validation schemas aggregation">>),
     enums |-> <<"enums", type>>,
     tables |-> [i \in DOMAIN ts |->
                    [dir |-> toSingularCamelCase(ts[i].tableName), file |-> type]]]

\* a written file: `./src/models/${dir}/${file}.ts` and its content
File(d, f, content) == [dir |-> d, file |-> f, content |-> content]

-----------------------------------------------------------------------------
(* SpecEnums: the enum emitters on enum descriptors of the documented shape *)

MaxEnums == 2

EnumNames == <<T_user_status, N_role_enum, N_date_enum, T_point>>

\* the keys of an enum descriptor {values, labels?, colors?, icons?,
\* description?}, in the order of the JSON object
EnumShapes ==
    {<<"values">>, <<"values", "labels">>, <<"values", "description">>,
     <<"values", "labels", "colors", "icons", "description">>}

EnumInputs ==
    UNION {{[i \in 1..n |-> EnumConfigOf(EnumNames[i], k[i], v[i])] :
               k \in [1..n -> EnumShapes], v \in [1..n -> {V_status, V_roles}]} :
           n \in 1..MaxEnums}

InitEnums ==
    /\ enums \in EnumInputs
    /\ enumSchemas = NotCalled /\ enumDefs = NotCalled
    /\ SpecIdle /\ TableIdle /\ ColIdle /\ RelIdle

EnumSchemas ==
    /\ ~enumSchemas.called
    /\ enumSchemas' = Called(generateEnumSchemas(enums))
    /\ UNCHANGED <<enums, enumDefs, specVars, tableVars, colVars, relVars>>

EnumDefinitions ==
    /\ ~enumDefs.called
    /\ enumDefs' = Called(generateEnumDefinitions(enums))
    /\ UNCHANGED <<enums, enumSchemas, specVars, tableVars, colVars, relVars>>

NextEnums == EnumSchemas \/ EnumDefinitions

SpecEnums == InitEnums /\ [][NextEnums]_vars

\* C16: for every enum descriptor of the documented shape, the emitted
\* validation schema and the emitted storage enum list exactly the strings
\* of its values array, in order.
Cex_C16 ==
    /\ enumSchemas.called =>
           \A i \in DOMAIN enums : enumSchemas.val[i].values = enums[i].values
    /\ enumDefs.called =>
           \A i \in DOMAIN enums : enumDefs.val[i].values = enums[i].values

-----------------------------------------------------------------------------
(* SpecArtifacts: the three per-table emitters on a table of a table set   *)

\* type tags outside the import switch of generateTableSchema, and tags
\* that name an enum directly or by the _enum suffix
ArtifactTags == {T_text, T_geography, T_point, T_user_status, T_role, N_role_enum}

ArtifactColumnConfigs ==
    {Column(t, FALSE, DefUndefined, FALSE, FALSE, NoRef, NoValidation) :
        t \in ArtifactTags}

\* one table: an id column followed by one or two columns of those tags
ArtifactTableSets ==
    {<<Table(1, N_guests, TRUE,
             <<[name |-> ColName(1), cfg |-> IdColumn]>>
                 \o [i \in DOMAIN f |-> [name |-> ColName(i + 1), cfg |-> f[i]]])>> :
        f \in UNION {[1..n -> ArtifactColumnConfigs] : n \in 1..2}}

InitArtifacts ==
    /\ enums = EnumsA
    /\ allTables \in RelTableSets \cup ArtifactTableSets
    /\ cur \in DOMAIN allTables
    /\ fkRel = NotCalled /\ revRel = NotCalled /\ anaRel = NotCalled
    /\ artVal = NotCalled /\ artTypes = NotCalled /\ artSchema = NotCalled
    /\ SpecIdle /\ TableIdle /\ ColIdle /\ EnumIdle

TableValidation ==
    /\ ~artVal.called
    /\ artVal' = Called(generateTableValidation(allTables[cur], enums))
    /\ UNCHANGED <<enums, enumVars, allTables, cur, fkRel, revRel, anaRel, artTypes, artSchema,
                   specVars, tableVars, colVars>>

TableTypes ==
    /\ ~artTypes.called
    /\ artTypes' = Called(generateTableTypes(allTables[cur], enums, allTables))
    /\ UNCHANGED <<enums, enumVars, allTables, cur, fkRel, revRel, anaRel, artVal, artSchema,
                   specVars, tableVars, colVars>>

TableSchema ==
    /\ ~artSchema.called
    /\ artSchema' = Called(generateDrizzleTableSchema(allTables[cur], enums))
    /\ UNCHANGED <<enums, enumVars, allTables, cur, fkRel, revRel, anaRel, artVal, artTypes,
                   specVars, tableVars, colVars>>

NextArtifacts == TableValidation \/ TableTypes \/ TableSchema

SpecArtifacts == InitArtifacts /\ [][NextArtifacts]_vars

\* the name an `import type { N } from '../f';` statement binds
BoundName(stmt) ==
    LET k == CHOOSE i \in DOMAIN stmt : stmt[i] = " } from '../"
    IN  SubSeq(stmt, 2, k - 1)

SeqRange(q) == {q[i] : i \in DOMAIN q}

\* the names the type artifact binds besides the import from './validation':
\* the related-table imports and the interfaces it declares
OtherBindings(c) ==
    {BoundName(c.relationImports[i]) : i \in DOMAIN c.relationImports}
        \cup SeqRange(c.apiTypes) \cup SeqRange(c.relationshipTypes)

BothArtifacts ==
    /\ artVal.called /\ artTypes.called
    /\ ~artVal.val.threw /\ ~artTypes.val.threw

\* C14: the three type names the type artifact imports and re-exports from
\* './validation' are exactly the three the validation artifact of the same
\* table exports, and the type artifact binds none of them a second time.
Cex_C14 ==
    BothArtifacts =>
        /\ artTypes.val.content.imported = artVal.val.content.types
        /\ artTypes.val.content.reexported = artVal.val.content.types
        /\ Cardinality(SeqRange(artVal.val.content.types)) = 3
        /\ OtherBindings(artTypes.val.content)
               \cap SeqRange(artVal.val.content.types) = {}

\* a column of table a that references a table that is not in allTables
Dangling(a) ==
    {i \in DOMAIN allTables[a].columns :
        /\ allTables[a].columns[i].cfg.dbConstraints.references.present
        /\ \A b \in DOMAIN allTables :
               allTables[b].tableName
                   # allTables[a].columns[i].cfg.dbConstraints.references.table}

\* C15: when a column references a table that is not in the loaded set,
\* emission of the table fails with an error, and no artifact that refers
\* to the missing table is produced.
Cex_C15 ==
    Dangling(cur) # {} =>
        /\ artTypes.called => artTypes.val.threw
        /\ artSchema.called => artSchema.val.threw

\* the pg-core column constructors generateTableSchema can import
PgColumnCtors ==
    {"varchar", "text", "integer", "numeric", "timestamp", "date", "boolean"}

\* the pg-core export a constructor of the table body is, "" for an enum
PgCoreName(ctor) ==
    CASE ctor = T_varchar -> "varchar"
      [] ctor = T_text -> "text"
      [] ctor = T_integer -> "integer"
      [] ctor = T_numeric -> "numeric"
      [] ctor = T_timestamp -> "timestamp"
      [] ctor = T_date -> "date"
      [] ctor = T_boolean -> "boolean"
      [] OTHER -> ""

ReferencedCtors(definition) ==
    {PgCoreName(definition.columns[i].ctor) : i \in DOMAIN definition.columns}
        \cap PgColumnCtors

SchemaEmitted == artSchema.called /\ ~artSchema.val.threw

\* C24: the column constructors the storage artifact imports from pg-core
\* are exactly the ones its table body references, for every type tag,
\* geography and unrecognized tags (emitted as text) included.
Cex_C24 ==
    SchemaEmitted =>
        artSchema.val.content.pgCore \cap PgColumnCtors
            = ReferencedCtors(artSchema.val.content.definition)

NoDuplicates(q) == \A i, j \in DOMAIN q : q[i] = q[j] => i = j

\* C30: in the storage artifact and in the validation artifact of a table
\* every imported symbol is imported once, also when two columns use one
\* enum or when the tags t and t_enum resolve to one enum.
Cex_C30 ==
    /\ SchemaEmitted =>
           NoDuplicates(artSchema.val.content.enumImports
                            \o [i \in DOMAIN artSchema.val.content.tableImports |->
                                   artSchema.val.content.tableImports[i].name])
    /\ (artVal.called /\ ~artVal.val.threw) =>
           NoDuplicates(artVal.val.content.enumImports)

-----------------------------------------------------------------------------
(* Spec: generateModels and the three generators as a process              *)

UsersColumns ==
    <<[name |-> S_id, cfg |-> IdColumn],
      [name |-> N_status,
       cfg |-> Column(T_user_status, FALSE, DefString(S_pending), FALSE, FALSE, NoRef,
                      NoValidation)]>>
BookingsColumns ==
    <<[name |-> S_id, cfg |-> IdColumn],
      [name |-> N_user_id, cfg |-> FkColumn(N_users)]>>
\* a table with one column and no primaryKey or serial column
GuestsColumns ==
    <<[name |-> N_status,
       cfg |-> Column(T_varchar, FALSE, DefUndefined, FALSE, FALSE, NoRef,
                      NoValidation)]>>

\* a descriptor file: "ok" parses to `table`; "malformed" is not JSON and
\* "unreadable" cannot be read, so readJsonFile rejects for both
DescriptorFiles ==
    {[status |-> "ok", table |-> Table(0, N_users, TRUE, UsersColumns)],
     [status |-> "ok", table |-> Table(0, N_bookings, TRUE, BookingsColumns)],
     [status |-> "ok", table |-> Table(0, N_guests, TRUE, GuestsColumns)],
     [status |-> "malformed", table |-> Table(0, N_users, TRUE, UsersColumns)],
     [status |-> "unreadable", table |-> Table(0, N_bookings, TRUE, BookingsColumns)]}

Init ==
    /\ enums = EnumsA
    /\ dir \in UNION {[1..n -> DescriptorFiles] : n \in 0..MaxFiles}
    /\ opts \in [validationOnly : BOOLEAN, schemasOnly : BOOLEAN, typesOnly : BOOLEAN]
    /\ run = 1 /\ pc = "models" /\ gen = "validation"
    /\ loads = <<>> /\ settled = <<>> /\ tables = <<>> /\ idx = 0
    /\ fs = <<>> /\ prevFs = <<>> /\ clock = 0 /\ exitCode = "running"
    /\ TableIdle /\ ColIdle /\ RelIdle /\ EnumIdle

others == <<enums, enumVars, dir, opts, tableVars, colVars, relVars>>

runAll == ~opts.validationOnly /\ ~opts.schemasOnly /\ ~opts.typesOnly

\* the `if` that guards each step of generateModels
stepSelected(g) ==
    CASE g = "validation" -> runAll \/ opts.validationOnly
      [] g = "types"      -> runAll \/ opts.typesOnly
      [] g = "schema"     -> runAll \/ opts.schemasOnly

nextStep(g) ==
    CASE g = "validation" -> "types"
      [] g = "types"      -> "schema"
      [] g = "schema"     -> "end"

Generators == {"validation", "types", "schema"}

\* generateModels calls the generator of the step
StartGenerator ==
    /\ pc = "models" /\ gen \in Generators /\ stepSelected(gen)
    /\ pc' = "loadEnums"
    /\ UNCHANGED <<run, gen, loads, tables, idx, fs, prevFs, clock, exitCode, settled, others>>

\* generateModels skips a step that the options do not select
SkipGenerator ==
    /\ pc = "models" /\ gen \in Generators /\ ~stepSelected(gen)
    /\ gen' = nextStep(gen)
    /\ UNCHANGED <<run, pc, loads, tables, idx, fs, prevFs, clock, exitCode, settled, others>>

\* loadEnums: the enum descriptors are read
LoadEnums ==
    /\ pc = "loadEnums"
    /\ pc' = "readdir"
    /\ UNCHANGED <<run, gen, loads, tables, idx, fs, prevFs, clock, exitCode, settled, others>>

\* loadAllTables: readdir, then one loadTable promise per file
Readdir ==
    /\ pc = "readdir"
    /\ loads' = [i \in DOMAIN dir |-> "pending"]
    /\ settled' = <<>>
    /\ pc' = "loading"
    /\ UNCHANGED <<run, gen, tables, idx, fs, prevFs, clock, exitCode, others>>

\* one loadTable promise settles; the promises settle in any order
LoadTable(i) ==
    /\ pc = "loading" /\ loads[i] = "pending"
    /\ loads' = [loads EXCEPT ![i] = IF dir[i].status = "ok" THEN "ok" ELSE "rejected"]
    /\ settled' = Append(settled, i)
    /\ UNCHANGED <<run, pc, gen, tables, idx, fs, prevFs, clock, exitCode, others>>

\* what the catch block of loadAllTables returns
loadAllTablesCatch == <<>>

\* Promise.all with the results in settling order instead of array order
promiseAllSettlingOrder(files, order) ==
    [k \in DOMAIN order |-> [files[order[k]].table EXCEPT !.file = order[k]]]

\* what Promise.all resolves with: the result of every promise, in the
\* order of the array of promises (the file order), whatever the order
\* `order` in which they settled
promiseAll(files, order) ==
    [i \in DOMAIN files |-> [files[i].table EXCEPT !.file = i]]

\* Promise.all resolves with the tables in file order
LoadAllTablesResolve ==
    /\ pc = "loading" /\ \A i \in DOMAIN loads : loads[i] = "ok"
    /\ tables' = promiseAll(dir, settled)
    /\ loads' = <<>>
    /\ pc' = "enumsFile"
    /\ UNCHANGED <<run, gen, idx, fs, prevFs, clock, exitCode, settled, others>>

\* Promise.all rejects with the first rejection; the catch block warns and
\* returns the empty list
LoadAllTablesReject ==
    /\ pc = "loading" /\ \E i \in DOMAIN loads : loads[i] = "rejected"
    /\ tables' = loadAllTablesCatch
    /\ loads' = <<>>
    /\ settled' = <<>>
    /\ pc' = "enumsFile"
    /\ UNCHANGED <<run, gen, idx, fs, prevFs, clock, exitCode, others>>

\* generateEnumsValidation / generateEnumsTypes / generateEnumsFile
WriteEnumsFile ==
    /\ pc = "enumsFile"
    /\ fs' = Append(fs, File(<<"enums">>, gen, emitEnums(gen, enums)))
    /\ idx' = 1
    /\ pc' = IF gen = "types" THEN "utility" ELSE "tables"
    /\ UNCHANGED <<run, gen, loads, tables, prevFs, clock, exitCode, settled, others>>

\* generateUtilityTypes of the types generator
WriteUtilityTypes ==
    /\ pc = "utility"
    /\ fs' = Append(fs, File(<<"utils">>, "types",
                 [header |-> generateFileHeader(
                      <<"Utility types for database operations">>)]))
    /\ pc' = "tables"
    /\ UNCHANGED <<run, gen, loads, tables, idx, prevFs, clock, exitCode, settled, others>>

\* the for loop over the tables has ended before its last iteration
loopEndedEarly(i, ts) == i >= Len(ts)

\* the for loop over the tables has ended: every table has been emitted
loopEnded(i, ts) == i > Len(ts)

\* one iteration of the for loop: the table's content is generated and written
EmitTable ==
    /\ pc = "tables" /\ idx <= Len(tables)
    /\ LET r == emitTable(gen, tables[idx], enums, tables)
       IN  /\ ~r.threw
           /\ fs' = Append(fs, File(toSingularCamelCase(tables[idx].tableName), gen,
                                    r.content))
    /\ idx' = idx + 1
    /\ UNCHANGED <<run, pc, gen, loads, tables, prevFs, clock, exitCode, settled, others>>

\* one iteration of the for loop throws: the catch block of the generator
\* logs the error and calls process.exit(1)
EmitTableThrows ==
    /\ pc = "tables" /\ idx <= Len(tables)
    /\ emitTable(gen, tables[idx], enums, tables).threw
    /\ pc' = "exited"
    /\ exitCode' = "1"
    /\ UNCHANGED <<run, gen, loads, tables, idx, fs, prevFs, clock, settled, others>>

\* generateModelAggregation after the loop; the generator returns
WriteAggregate ==
    /\ pc = "tables" /\ loopEnded(idx, tables)
    /\ fs' = Append(fs, File(<<>>, gen, generateModelAggregation(tables, gen)))
    /\ gen' = nextStep(gen)
    /\ pc' = "models"
    /\ UNCHANGED <<run, loads, tables, idx, prevFs, clock, exitCode, settled, others>>

\* generateModels returns
Finish ==
    /\ pc = "models" /\ gen = "end"
    /\ pc' = "done"
    /\ exitCode' = "0"
    /\ UNCHANGED <<run, gen, loads, tables, idx, fs, prevFs, clock, settled, others>>

\* the pipeline is run again on the same descriptors; the wall clock has
\* advanced or, within its resolution, not
ReRun ==
    /\ pc = "done" /\ run < MaxRuns
    /\ run' = run + 1
    /\ prevFs' = fs
    /\ fs' = <<>>
    /\ clock' \in {clock, clock + 1}
    /\ gen' = "validation" /\ pc' = "models" /\ exitCode' = "running"
    /\ tables' = <<>> /\ idx' = 0
    /\ settled' = <<>>
    /\ UNCHANGED <<loads, others>>

Next ==
    \/ StartGenerator \/ SkipGenerator \/ LoadEnums \/ Readdir
    \/ \E i \in DOMAIN dir : LoadTable(i)
    \/ LoadAllTablesResolve \/ LoadAllTablesReject
    \/ WriteEnumsFile \/ WriteUtilityTypes
    \/ EmitTable \/ EmitTableThrows \/ WriteAggregate
    \/ Finish \/ ReRun

Spec == Init /\ [][Next]_vars

-----------------------------------------------------------------------------
(* Claims about the process (Spec)                                         *)

\* C1: running the pipeline twice on identical descriptors produces
\* identical text for every artifact, the header included.
Cex_C1 == (run >= 2 /\ pc = "done") => fs = prevFs

\* C2: when a table fails validation or emission in a generator run, no
\* artifact has been written by the time the run fails.
Cex_C2 == exitCode = "1" => fs = <<>>

\* C3: if a descriptor file is unreadable or malformed, loading fails and
\* the run emits no artifact; it never goes on with an empty or reduced
\* table set.
Cex_C3 ==
    (\E i \in DOMAIN dir : dir[i].status # "ok") =>
        /\ fs = <<>>
        /\ pc \notin {"enumsFile", "utility", "tables", "done"}

\* the files of fs that are the aggregate of an artifact kind
IsAggregate(f) == f.dir = <<>>

\* the files of fs written for a table by the generator of kind g
IsTableFile(f, g) == f.file = g /\ f.dir \notin {<<>>, <<"enums">>, <<"utils">>}

TableDir(t) == toSingularCamelCase(t.tableName)

\* C18: the aggregate file of an artifact kind is in the file store only
\* after the per-table artifact of that kind of every table of the run, and
\* it is not there while a table of the running generator is still to be
\* emitted or has failed.
Thm_C18 ==
    /\ \A k \in DOMAIN fs :
           IsAggregate(fs[k]) =>
               \A i \in DOMAIN tables :
                   \E j \in 1..(k - 1) :
                       /\ IsTableFile(fs[j], fs[k].file)
                       /\ fs[j].dir = TableDir(tables[i])
    /\ ((pc = "tables" /\ idx <= Len(tables)) \/ exitCode = "1") =>
           \A k \in DOMAIN fs : ~(IsAggregate(fs[k]) /\ fs[k].file = gen)

Wit_C18 ==
    /\ Len(tables) = 2
    /\ tables[1].tableName = N_users /\ tables[2].tableName = N_bookings
    /\ \E k \in DOMAIN fs : IsAggregate(fs[k]) /\ fs[k].file = "validation"
    /\ \E k \in DOMAIN fs : IsAggregate(fs[k]) /\ fs[k].file = "types"
    /\ gen = "schema" /\ pc = "tables" /\ idx = 2

\* C19: for every option set of generateModels, whenever the type artifact
\* of a table is in the file store of a run, the validation artifact of
\* that table was written earlier in the same run.
Cex_C19 ==
    \A k \in DOMAIN fs :
        IsTableFile(fs[k], "types") =>
            \E j \in 1..(k - 1) :
                IsTableFile(fs[j], "validation") /\ fs[j].dir = fs[k].dir

\* utils/schemaAnalysis.ts: the enums a table uses and the keys to import
analyzeEnumUsage(table, es) ==
    LET types == [i \in DOMAIN table.columns |-> table.columns[i].cfg.dbConstraints.type]
        included(t) == \E i \in DOMAIN es :
                           es[i].name = t \/ es[i].name = t \o S_enum_suffix
        usedEnums == uniqueFilter(SelectSeq(types, included))
    IN  [usedEnums |-> usedEnums,
         enumImports |-> [i \in DOMAIN usedEnums |-> findEnumKey(usedEnums[i], es).key]]

SchemaSuffix == <<"S","c","h","e","m","a">>

\* both emitters and the usage analysis name enum i of the set
ResolvedTo(i) ==
    /\ drz.val.ctor = toCamelCase(enums[i].name)
    /\ zbase.val.zodType[1] =
           Tok("enumSchema", "", toCamelCase(enums[i].name) \o SchemaSuffix)
    /\ analyzeEnumUsage(OneColumnTable(col), enums).enumImports = <<enums[i].name>>

\* both emitters fall back to the generic representation
FallsBack ==
    /\ drz.val.ctor = T_text
    /\ zbase.val.zodType[1] = Tok("z.string", "", <<>>)
    /\ analyzeEnumUsage(OneColumnTable(col), enums).enumImports = <<>>

AcceptsNull(zodType) == HasTok(zodType, "nullable")
AcceptsUndefined(zodType) == HasTok(zodType, "optional") \/ HasTok(zodType, "default")

\* the expression without its .nullable() and .optional() modifiers
CoreType(zodType) ==
    LET core(t) == t.m # "nullable" /\ t.m # "optional" IN SelectSeq(zodType, core)

\* the field of the insert schema: .extend replaces the field of the base
\* schema, a field that is not extended is inherited
InsertField(ins, base) ==
    IF \E i \in DOMAIN ins.extend : ins.extend[i].fieldKey = base.fieldKey
    THEN ins.extend[CHOOSE i \in DOMAIN ins.extend :
                        ins.extend[i].fieldKey = base.fieldKey].zodType
    ELSE base.zodType

\* C25: for a column kept in the insert schema, the insert field accepts
\* every value the base field accepts: the values of the same core type,
\* null when the base field accepts null, an absent value when the base
\* field accepts one.
Cex_C25 ==
    (zbase.called /\ zins.called /\ ~includes(zins.val.omit, zbase.val.fieldKey)) =>
        /\ CoreType(InsertField(zins.val, zbase.val)) = CoreType(zbase.val.zodType)
        /\ AcceptsNull(zbase.val.zodType) =>
               AcceptsNull(InsertField(zins.val, zbase.val))
        /\ AcceptsUndefined(zbase.val.zodType) =>
               AcceptsUndefined(InsertField(zins.val, zbase.val))

\* RegExp /^\d+\.\d{2}$/ .test(str)
MatchesPrice(str) ==
    /\ Len(str) >= 4
    /\ \A i \in 1..(Len(str) - 3) : IsDigit(str[i])
    /\ str[Len(str) - 2] = "."
    /\ IsDigit(str[Len(str) - 1]) /\ IsDigit(str[Len(str)])

\* the expression applies the price rule and has one default, a string
\* literal that the rule accepts
DefaultIsPrice(zodType) ==
    /\ \E i \in DOMAIN zodType : zodType[i] = Tok("regex", "Invalid price format", PricePattern)
    /\ Len(DefaultToks(zodType)) = 1
    /\ DefaultToks(zodType)[1].q = "\""
    /\ MatchesPrice(DefaultToks(zodType)[1].a)

\* C28: for a numeric, decimal or money column with a number default,
\* integer or fractional, the default attached to the validation expression
\* of the base field and of the insert field is a string the expression's
\* own rule accepts: digits, a dot, exactly two digits.
Cex_C28 ==
    (/\ col.cfg.dbConstraints.type \in NumericFamily
     /\ col.cfg.dbConstraints.default.kind = "number") =>
        /\ zbase.called => DefaultIsPrice(zbase.val.zodType)
        /\ zins.called =>
               \A i \in DOMAIN zins.val.extend : DefaultIsPrice(zins.val.extend[i].zodType)

\* the expression has the rule .m(n)
HasRule(zodType, m, n) == \E i \in DOMAIN zodType : zodType[i] = Tok(m, "", numToString(n))

\* every bound the validation rules declare is a rule of the expression
BoundsEmitted(zodType, v) ==
    /\ Declared(v.min) => HasRule(zodType, "min", v.min)
    /\ Declared(v.max) => HasRule(zodType, "max", v.max)

\* C29: for an integer or string column, each bound its validation rules
\* declare (min or max, 0 included) is in the emitted validation expression
\* (of generateBaseZodType and of mapToZodType) as the .min / .max rule.
Cex_C29 ==
    col.cfg.dbConstraints.type \in {T_integer, T_varchar, T_text} =>
        /\ zbase.called => BoundsEmitted(zbase.val.zodType, col.cfg.validation)
        /\ zmap.called => BoundsEmitted(zmap.val, col.cfg.validation)

AllLoaded == \A i \in DOMAIN dir : dir[i].status = "ok"

TableFiles(g) == LET mine(f) == IsTableFile(f, g) IN SelectSeq(fs, mine)

\* C20: when every descriptor loads, the order in which the tables are
\* emitted and the order of the lines of each aggregate file are the order
\* of the descriptor files in the directory listing, whatever order the
\* loads settled in; the aggregate re-exports the enum artifact first.
Thm_C20 ==
    AllLoaded =>
        /\ \A k \in DOMAIN fs :
               IsAggregate(fs[k]) =>
                   /\ fs[k].content.enums = <<"enums", fs[k].file>>
                   /\ fs[k].content.tables =
                          [i \in DOMAIN dir |->
                              [dir |-> TableDir(dir[i].table), file |-> fs[k].file]]
        /\ \A g \in Generators :
               /\ Len(TableFiles(g)) <= Len(dir)
               /\ \A j \in DOMAIN TableFiles(g) :
                      TableFiles(g)[j].dir = TableDir(dir[j].table)

Wit_C20 ==
    /\ AllLoaded /\ Len(dir) = 2
    /\ dir[1].table.tableName = N_users /\ dir[2].table.tableName = N_bookings
    /\ settled = <<2, 1>>
    /\ gen = "types" /\ pc = "tables" /\ idx = 3
    /\ \E k \in DOMAIN fs : IsAggregate(fs[k]) /\ fs[k].file = "validation"
    /\ Len(TableFiles("types")) = 2

====
